---- MODULE Spec2Model ----
(***************************************************************************)
(* Realtime caption stream client (the useCaptionStream hook).             *)
(*                                                                         *)
(* Two variants of the hook exist in the repository:                       *)
(*   "demo"  - src/hooks/use-caption-stream.ts (Demo Simulator, demoMode,  *)
(*             sessionActive initially false)                              *)
(*   "plain" - src/unnamed/part_000 (no simulator, sessionActive initially *)
(*             true, warning alert when no wsUrl is configured)            *)
(* The variable `variant` selects which one a behaviour runs.              *)
(*                                                                         *)
(* Numbers with a fractional part (confidence, Math.random(), wire         *)
(* numbers) are fixed-point integers in thousandths: 450 is 0.45.          *)
(* JavaScript strings are TLA+ strings.                                    *)
(***************************************************************************)
EXTENDS Integers, Sequences, FiniteSets, TLC

VARIABLES
    variant,              \* which hook source runs
    wsUrl,                \* TRUE iff the wsUrl prop is a non-empty string
    mounted,              \* the first effect run has happened
    sessionActive,        \* useState
    demoMode,             \* useState (demo variant only)
    connectionState,      \* useState
    currentCaption,       \* useState
    partialCaption,       \* useState
    transcript,           \* useState, newest first
    alerts,               \* useState, newest first
    isProcessing,         \* useState
    metrics,              \* useState
    wsRef,                \* useRef: socket id, 0 is null
    reconnectTimeoutRef,  \* useRef: timer id, 0 is null
    demoIntervalRef,      \* useRef: interval id, 0 is null
    reconnectAttemptRef,  \* useRef
    partialPhaseRef,      \* useRef
    phraseIndexRef,       \* useRef
    sockets,              \* WebSocket objects that can still fire a callback or are referenced
    timers,               \* pending setTimeout(connect, backoffMs) timers
    intervals,            \* running setInterval handles
    cleanup,              \* cleanup returned by the last effect run: "none", "demo", "live"
    nextId,               \* crypto.randomUUID(): the next fresh id
    inbox                 \* the frame a scripted backend sends, null if the backend is free

vars == << variant, wsUrl, mounted, sessionActive, demoMode, connectionState,
           currentCaption, partialCaption, transcript, alerts, isProcessing,
           metrics, wsRef, reconnectTimeoutRef, demoIntervalRef,
           reconnectAttemptRef, partialPhaseRef, phraseIndexRef, sockets,
           timers, intervals, cleanup, nextId, inbox >>

----------------------------------------------------------------------------
(* Bounds of the model *)

MaxIds == 2            \* entries (captions and alerts) minted in one behaviour
MaxSockets == 2        \* WebSocket objects alive at once
MaxHandles == 2        \* timer ids and interval ids in use at once
MaxAttempt == 6        \* cap on reconnectAttemptRef
MaxPhraseIndex == 6    \* cap on phraseIndexRef

(* Program constants *)

MAX_TRANSCRIPT_ENTRIES == 200
MAX_ALERT_ENTRIES == 20
BACKOFF_CAP_MS == 10000
BACKOFF_STEP_MS == 2000

DEMO_PHRASES ==
    << "Hello, I am glad to meet you.",
       "Can you help me find the nearest exit?",
       "Please wait one moment.",
       "I need assistance with directions.",
       "Thank you for your help." >>

NULL == [null |-> TRUE]

Min(a, b) == IF a < b THEN a ELSE b
Max(a, b) == IF a > b THEN a ELSE b

\* Array.prototype.slice(0, n)
Slice(seq, n) == SubSeq(seq, 1, Min(n, Len(seq)))

\* nowIso(): the wall clock reading
nowIso == "now"

\* Math.random() outcomes of one tick (thousandths, 0 <= r < 1000), in call
\* order: hands, latency, fps, queue depth, confidence
TickDraws == { << 60, 60, 60, 60, 60 >>,
               << 980, 980, 500, 980, 980 >> }

----------------------------------------------------------------------------
(* The hook's state as one record, so that handlers compose as functions *)

S == [ mounted |-> mounted, sessionActive |-> sessionActive, demoMode |-> demoMode,
       connectionState |-> connectionState,
       currentCaption |-> currentCaption, partialCaption |-> partialCaption,
       transcript |-> transcript, alerts |-> alerts,
       isProcessing |-> isProcessing, metrics |-> metrics,
       wsRef |-> wsRef, reconnectTimeoutRef |-> reconnectTimeoutRef,
       demoIntervalRef |-> demoIntervalRef,
       reconnectAttemptRef |-> reconnectAttemptRef,
       partialPhaseRef |-> partialPhaseRef, phraseIndexRef |-> phraseIndexRef,
       sockets |-> sockets, timers |-> timers, intervals |-> intervals,
       cleanup |-> cleanup, nextId |-> nextId ]

\* A socket whose close event has fired and that no ref points to is garbage.
\* The sockets that remain are numbered 1..n in order of creation, so that a
\* socket's number says nothing but its age among the live ones.
Renumber(socks, ref) ==
    LET kept == {j \in DOMAIN socks : ~socks[j].closeFired \/ j = ref}
        Rank(i) == Cardinality({j \in kept : j <= i})
    IN  [ sockets |-> [r \in 1..Cardinality(kept) |->
                          socks[CHOOSE i \in kept : Rank(i) = r]],
          wsRef |-> IF ref \in kept THEN Rank(ref) ELSE ref ]

Collect(st) ==
    LET c == Renumber(st.sockets, st.wsRef)
    IN  [st EXCEPT !.sockets = c.sockets, !.wsRef = c.wsRef]

Commit(st) ==
    /\ mounted' = st.mounted
    /\ sessionActive' = st.sessionActive
    /\ demoMode' = st.demoMode
    /\ connectionState' = st.connectionState
    /\ currentCaption' = st.currentCaption
    /\ partialCaption' = st.partialCaption
    /\ transcript' = st.transcript
    /\ alerts' = st.alerts
    /\ isProcessing' = st.isProcessing
    /\ metrics' = st.metrics
    /\ wsRef' = st.wsRef
    /\ reconnectTimeoutRef' = st.reconnectTimeoutRef
    /\ demoIntervalRef' = st.demoIntervalRef
    /\ reconnectAttemptRef' = st.reconnectAttemptRef
    /\ partialPhaseRef' = st.partialPhaseRef
    /\ phraseIndexRef' = st.phraseIndexRef
    /\ sockets' = st.sockets
    /\ timers' = st.timers
    /\ intervals' = st.intervals
    /\ cleanup' = st.cleanup
    /\ nextId' = st.nextId
    /\ UNCHANGED << variant, wsUrl, inbox >>

----------------------------------------------------------------------------
(* Entries *)

confidenceLevelFor(confidence) ==
    IF confidence < 450 THEN "low"
    ELSE IF confidence < 750 THEN "medium"
    ELSE "high"

captionFromPayload(payload, uuid) ==
    [ text |-> payload.text, timestamp |-> payload.timestamp,
      confidence |-> payload.confidence, id |-> uuid,
      confidenceLevel |-> confidenceLevelFor(payload.confidence) ]

alertFromPayload(payload, uuid) ==
    [ level |-> payload.level, message |-> payload.message,
      timestamp |-> payload.timestamp, id |-> uuid ]

----------------------------------------------------------------------------
(* State Aggregator *)

\* mutant: a new alert replaces the list instead of being put in front of it
addAlert_Replaces(st, payload) ==
    [st EXCEPT
        !.alerts = << alertFromPayload(payload, st.nextId) >>,
        !.nextId = st.nextId + 1]

addAlert(st, payload) ==
    [st EXCEPT
        !.alerts = Slice(<< alertFromPayload(payload, st.nextId) >> \o st.alerts,
                         MAX_ALERT_ENTRIES),
        !.nextId = st.nextId + 1]

\* mutant: the transcript is not truncated
handleEvent_NoTruncate(st, event) ==
    IF event.type = "caption.partial" THEN
        [st EXCEPT !.partialCaption = captionFromPayload(event.payload, st.nextId),
                   !.isProcessing = TRUE,
                   !.nextId = st.nextId + 1]
    ELSE IF event.type = "caption.final" THEN
        LET caption == captionFromPayload(event.payload, st.nextId) IN
        [st EXCEPT !.currentCaption = caption,
                   !.partialCaption = NULL,
                   !.transcript = << caption >> \o st.transcript,
                   !.isProcessing = FALSE,
                   !.nextId = st.nextId + 1]
    ELSE IF event.type = "system.metrics" THEN
        [st EXCEPT !.metrics = event.payload]
    ELSE addAlert(st, event.payload)

\* mutant: a final caption leaves the partial caption showing
handleEvent_KeepPartial(st, event) ==
    IF event.type = "caption.partial" THEN
        [st EXCEPT !.partialCaption = captionFromPayload(event.payload, st.nextId),
                   !.isProcessing = TRUE,
                   !.nextId = st.nextId + 1]
    ELSE IF event.type = "caption.final" THEN
        LET caption == captionFromPayload(event.payload, st.nextId) IN
        [st EXCEPT !.currentCaption = caption,
                   !.transcript = Slice(<< caption >> \o st.transcript,
                                        MAX_TRANSCRIPT_ENTRIES),
                   !.isProcessing = FALSE,
                   !.nextId = st.nextId + 1]
    ELSE IF event.type = "system.metrics" THEN
        [st EXCEPT !.metrics = event.payload]
    ELSE addAlert(st, event.payload)

\* mutant: a partial caption does not mark the stream as processing
handleEvent_PartialNotProcessing(st, event) ==
    IF event.type = "caption.partial" THEN
        [st EXCEPT !.partialCaption = captionFromPayload(event.payload, st.nextId),
                   !.nextId = st.nextId + 1]
    ELSE IF event.type = "caption.final" THEN
        LET caption == captionFromPayload(event.payload, st.nextId) IN
        [st EXCEPT !.currentCaption = caption,
                   !.partialCaption = NULL,
                   !.transcript = Slice(<< caption >> \o st.transcript,
                                        MAX_TRANSCRIPT_ENTRIES),
                   !.isProcessing = FALSE,
                   !.nextId = st.nextId + 1]
    ELSE IF event.type = "system.metrics" THEN
        [st EXCEPT !.metrics = event.payload]
    ELSE addAlert(st, event.payload)

\* mutant: a metrics event is merged into the previous value
handleEvent_MergeMetrics(st, event) ==
    IF event.type = "caption.partial" THEN
        [st EXCEPT !.partialCaption = captionFromPayload(event.payload, st.nextId),
                   !.isProcessing = TRUE,
                   !.nextId = st.nextId + 1]
    ELSE IF event.type = "caption.final" THEN
        LET caption == captionFromPayload(event.payload, st.nextId) IN
        [st EXCEPT !.currentCaption = caption,
                   !.partialCaption = NULL,
                   !.transcript = Slice(<< caption >> \o st.transcript,
                                        MAX_TRANSCRIPT_ENTRIES),
                   !.isProcessing = FALSE,
                   !.nextId = st.nextId + 1]
    ELSE IF event.type = "system.metrics" THEN
        [st EXCEPT !.metrics =
            [ fps |-> IF event.payload.fps = 0 THEN st.metrics.fps
                      ELSE event.payload.fps,
              latency_ms |-> IF event.payload.latency_ms = 0 THEN st.metrics.latency_ms
                             ELSE event.payload.latency_ms,
              hands_detected |-> event.payload.hands_detected,
              queue_depth |-> IF event.payload.queue_depth = 0
                              THEN st.metrics.queue_depth
                              ELSE event.payload.queue_depth ]]
    ELSE addAlert(st, event.payload)

\* mutant: a partial caption is also put on display as the current caption
handleEvent_PartialReplacesCurrent(st, event) ==
    IF event.type = "caption.partial" THEN
        [st EXCEPT !.partialCaption = captionFromPayload(event.payload, st.nextId),
                   !.currentCaption = captionFromPayload(event.payload, st.nextId),
                   !.isProcessing = TRUE,
                   !.nextId = st.nextId + 1]
    ELSE IF event.type = "caption.final" THEN
        LET caption == captionFromPayload(event.payload, st.nextId) IN
        [st EXCEPT !.currentCaption = caption,
                   !.partialCaption = NULL,
                   !.transcript = Slice(<< caption >> \o st.transcript,
                                        MAX_TRANSCRIPT_ENTRIES),
                   !.isProcessing = FALSE,
                   !.nextId = st.nextId + 1]
    ELSE IF event.type = "system.metrics" THEN
        [st EXCEPT !.metrics = event.payload]
    ELSE addAlert(st, event.payload)

handleEvent(st, event) ==
    IF event.type = "caption.partial" THEN
        [st EXCEPT !.partialCaption = captionFromPayload(event.payload, st.nextId),
                   !.isProcessing = TRUE,
                   !.nextId = st.nextId + 1]
    ELSE IF event.type = "caption.final" THEN
        LET caption == captionFromPayload(event.payload, st.nextId) IN
        [st EXCEPT !.currentCaption = caption,
                   !.partialCaption = NULL,
                   !.transcript = Slice(<< caption >> \o st.transcript,
                                        MAX_TRANSCRIPT_ENTRIES),
                   !.isProcessing = FALSE,
                   !.nextId = st.nextId + 1]
    ELSE IF event.type = "system.metrics" THEN
        [st EXCEPT !.metrics = event.payload]
    ELSE addAlert(st, event.payload)

----------------------------------------------------------------------------
(* JavaScript values as decoded by JSON.parse *)

JUndef == [ty |-> "undefined"]
JNull == [ty |-> "null"]
JStr(str) == [ty |-> "string", s |-> str]
JNum(num) == [ty |-> "number", n |-> num, finite |-> TRUE]
JNonFinite == [ty |-> "number", n |-> 0, finite |-> FALSE]
JBool(bool) == [ty |-> "boolean", b |-> bool]
JObj(fields) == [ty |-> "object", f |-> fields]
EmptyObj == JObj(<< >>)

\* property read: value.key, undefined when the key is absent
Get(value, key) ==
    IF value.ty = "object" /\ key \in DOMAIN value.f THEN value.f[key] ELSE JUndef

\* Number(str) for the strings that occur on the wire; anything else is NaN
StringToNumber(str) ==
    CASE str = "" -> JNum(0)
      [] str = "0.3" -> JNum(300)
      [] str = "2" -> JNum(2000)
      [] OTHER -> JNonFinite

LowerChar(c) ==
    CASE c = "A" -> "a" [] c = "B" -> "b" [] c = "C" -> "c" [] c = "D" -> "d"
      [] c = "E" -> "e" [] c = "F" -> "f" [] c = "G" -> "g" [] c = "H" -> "h"
      [] c = "I" -> "i" [] c = "J" -> "j" [] c = "K" -> "k" [] c = "L" -> "l"
      [] c = "M" -> "m" [] c = "N" -> "n" [] c = "O" -> "o" [] c = "P" -> "p"
      [] c = "Q" -> "q" [] c = "R" -> "r" [] c = "S" -> "s" [] c = "T" -> "t"
      [] c = "U" -> "u" [] c = "V" -> "v" [] c = "W" -> "w" [] c = "X" -> "x"
      [] c = "Y" -> "y" [] c = "Z" -> "z" [] OTHER -> c

RECURSIVE toLowerCase(_)
toLowerCase(str) ==
    IF Len(str) = 0 THEN ""
    ELSE LowerChar(SubSeq(str, 1, 1)) \o toLowerCase(SubSeq(str, 2, Len(str)))

\* Math.round on thousandths, result in units (halves round up)
Round(x) == (x + 500) \div 1000

----------------------------------------------------------------------------
(* Event Normalizer *)

isObject(value) == value.ty = "object"

toNumber(value, fallback) ==
    IF value.ty = "number" /\ value.finite THEN value.n
    ELSE IF value.ty = "string" /\ StringToNumber(value.s).finite
         THEN StringToNumber(value.s).n
    ELSE fallback

toString(value, fallback) == IF value.ty = "string" THEN value.s ELSE fallback

toBool(value, fallback) == IF value.ty = "boolean" THEN value.b ELSE fallback

\* src/hooks/use-caption-stream.ts: healthy && frames_with_hands > 0
handsDetectedDemoVariant(landmark) ==
    toBool(Get(landmark, "healthy"), FALSE)
        /\ toNumber(Get(landmark, "frames_with_hands"), 0) > 0

\* mutant: the direct flag is read only when the landmark stage is healthy
handsDetectedPlainVariant_FlagWhenHealthy(landmark) ==
    toBool(Get(landmark, "healthy"), FALSE)
        /\ toBool(Get(landmark, "last_frame_had_hands"),
                  toNumber(Get(landmark, "frames_with_hands"), 0) > 0)

\* src/unnamed/part_000: last_frame_had_hands first, the above as fallback
handsDetectedPlainVariant(landmark) ==
    toBool(Get(landmark, "last_frame_had_hands"),
           toBool(Get(landmark, "healthy"), FALSE)
               /\ toNumber(Get(landmark, "frames_with_hands"), 0) > 0)

normalizeMetricsEvent(v, payload) ==
    LET sub(name) == IF isObject(Get(payload, name)) THEN Get(payload, name)
                     ELSE EmptyObj
        ingest == sub("ingest")
        landmark == sub("landmark")
        windowing == sub("windowing")
        translation == sub("translation")
        fps == Max(0, toNumber(Get(ingest, "effective_fps"), 0))
        latencyMs ==
            Max(0, toNumber(Get(translation, "last_processing_ms"),
                            toNumber(Get(landmark, "last_processing_ms"), 0)))
        queueDepth ==
            Max(0, toNumber(Get(landmark, "queue_size"), 0)
                     + toNumber(Get(windowing, "queue_size"), 0)
                     + toNumber(Get(translation, "queue_size"), 0))
        handsDetected == IF v = "demo" THEN handsDetectedDemoVariant(landmark)
                         ELSE handsDetectedPlainVariant(landmark)
    IN  [ type |-> "system.metrics",
          payload |-> [ fps |-> Round(fps),
                        latency_ms |-> Round(latencyMs),
                        hands_detected |-> handsDetected,
                        queue_depth |-> Round(queueDepth) ] ]

\* mutant: the envelope timestamp wins over the payload's
normalizeAlertEvent_EnvelopeTimeFirst(envelopeTimestamp, payload) ==
    LET severity == toLowerCase(toString(Get(payload, "severity"), "info"))
        component == toString(Get(payload, "component"), "system")
        reason == toString(Get(payload, "reason"), "unknown alert")
        level == IF severity = "error" THEN "error"
                 ELSE IF severity = "warning" THEN "warning"
                 ELSE "info"
    IN  [ type |-> "system.alert",
          payload |-> [ level |-> level,
                        message |-> component \o ": " \o reason,
                        timestamp |-> envelopeTimestamp ] ]

\* mutant: the severity is compared as received, letter case included
normalizeAlertEvent_CaseSensitive(envelopeTimestamp, payload) ==
    LET severity == toString(Get(payload, "severity"), "info")
        component == toString(Get(payload, "component"), "system")
        reason == toString(Get(payload, "reason"), "unknown alert")
        level == IF severity = "error" THEN "error"
                 ELSE IF severity = "warning" THEN "warning"
                 ELSE "info"
    IN  [ type |-> "system.alert",
          payload |-> [ level |-> level,
                        message |-> component \o ": " \o reason,
                        timestamp |-> toString(Get(payload, "timestamp"),
                                               envelopeTimestamp) ] ]

normalizeAlertEvent(envelopeTimestamp, payload) ==
    LET severity == toLowerCase(toString(Get(payload, "severity"), "info"))
        component == toString(Get(payload, "component"), "system")
        reason == toString(Get(payload, "reason"), "unknown alert")
        level == IF severity = "error" THEN "error"
                 ELSE IF severity = "warning" THEN "warning"
                 ELSE "info"
    IN  [ type |-> "system.alert",
          payload |-> [ level |-> level,
                        message |-> component \o ": " \o reason,
                        timestamp |-> toString(Get(payload, "timestamp"),
                                               envelopeTimestamp) ] ]

\* mutant: the confidence is stored as received
normalizeCaptionEvent_NoClamp(eventType, envelopeTimestamp, payload) ==
    [ type |-> eventType,
      payload |-> [ text |-> toString(Get(payload, "text"), ""),
                    timestamp |-> toString(Get(payload, "created_at"),
                                           envelopeTimestamp),
                    confidence |-> toNumber(Get(payload, "confidence"), 0) ] ]

normalizeCaptionEvent(eventType, envelopeTimestamp, payload) ==
    [ type |-> eventType,
      payload |-> [ text |-> toString(Get(payload, "text"), ""),
                    timestamp |-> toString(Get(payload, "created_at"),
                                           envelopeTimestamp),
                    confidence |->
                        Max(0, Min(1000, toNumber(Get(payload, "confidence"), 0))) ] ]

\* mutant: an unknown name under `type` falls through to the `event` field
normalizeIncomingEvent_FallsThrough(v, raw) ==
    IF ~isObject(raw) THEN NULL
    ELSE IF /\ Get(raw, "type").ty = "string" /\ isObject(Get(raw, "payload"))
            /\ Get(raw, "type").s \in {"caption.partial", "caption.final",
                                       "system.metrics", "system.alert"} THEN
        LET eventType == Get(raw, "type").s
            payload == Get(raw, "payload")
        IN  IF eventType = "caption.partial" \/ eventType = "caption.final"
                THEN normalizeCaptionEvent(eventType, nowIso, payload)
            ELSE IF eventType = "system.metrics"
                THEN normalizeMetricsEvent(v, payload)
            ELSE normalizeAlertEvent(nowIso, payload)
    ELSE IF Get(raw, "event").ty # "string" \/ ~isObject(Get(raw, "payload")) THEN NULL
    ELSE
        LET event == Get(raw, "event").s
            payload == Get(raw, "payload")
            envelopeTimestamp == toString(Get(raw, "timestamp"), nowIso)
        IN  IF event = "caption.partial" \/ event = "caption.final"
                THEN normalizeCaptionEvent(event, envelopeTimestamp, payload)
            ELSE IF event = "system.metrics"
                THEN normalizeMetricsEvent(v, payload)
            ELSE IF event = "system.alert"
                THEN normalizeAlertEvent(envelopeTimestamp, payload)
            ELSE NULL

normalizeIncomingEvent(v, raw) ==
    IF ~isObject(raw) THEN NULL
    ELSE IF Get(raw, "type").ty = "string" /\ isObject(Get(raw, "payload")) THEN
        LET eventType == Get(raw, "type").s
            payload == Get(raw, "payload")
        IN  IF eventType = "caption.partial" \/ eventType = "caption.final"
                THEN normalizeCaptionEvent(eventType, nowIso, payload)
            ELSE IF eventType = "system.metrics"
                THEN normalizeMetricsEvent(v, payload)
            ELSE IF eventType = "system.alert"
                THEN normalizeAlertEvent(nowIso, payload)
            ELSE NULL
    ELSE IF Get(raw, "event").ty # "string" \/ ~isObject(Get(raw, "payload")) THEN NULL
    ELSE
        LET event == Get(raw, "event").s
            payload == Get(raw, "payload")
            envelopeTimestamp == toString(Get(raw, "timestamp"), nowIso)
        IN  IF event = "caption.partial" \/ event = "caption.final"
                THEN normalizeCaptionEvent(event, envelopeTimestamp, payload)
            ELSE IF event = "system.metrics"
                THEN normalizeMetricsEvent(v, payload)
            ELSE IF event = "system.alert"
                THEN normalizeAlertEvent(envelopeTimestamp, payload)
            ELSE NULL

----------------------------------------------------------------------------
(* Frames the backend can send.  `data` is the text on the wire, `parsed`  *)
(* is what JSON.parse(String(event.data)) does with it: ok = FALSE is a    *)
(* SyntaxError, otherwise `value` is the decoded value.                    *)

Throws == [ok |-> FALSE, value |-> JUndef]
Parses(value) == [ok |-> TRUE, value |-> value]

WireFrames ==
    << [ data |-> "{bad", parsed |-> Throws ],
       [ data |-> "42", parsed |-> Parses(JNum(42000)) ],
       [ data |-> "null", parsed |-> Parses(JNull) ],
       [ data |-> "{type:caption.partial,payload:{text:Hel,confidence:0.5}}",
         parsed |-> Parses(JObj(
            ("type" :> JStr("caption.partial")) @@
            ("payload" :> JObj(("text" :> JStr("Hel")) @@
                               ("confidence" :> JNum(500)))))) ],
       [ data |-> "{type:caption.final,payload:{text:Hello,confidence:1.4,timestamp:2024-01-01T00:00:00Z}}",
         parsed |-> Parses(JObj(
            ("type" :> JStr("caption.final")) @@
            ("payload" :> JObj(("text" :> JStr("Hello")) @@
                               ("confidence" :> JNum(1400)) @@
                               ("timestamp" :> JStr("2024-01-01T00:00:00Z")))))) ],
       [ data |-> "{event:system.metrics,payload:{ingest:{effective_fps:14.6},landmark:{healthy:true,frames_with_hands:3,last_frame_had_hands:false,queue_size:1,last_processing_ms:12.5},translation:{queue_size:1}}}",
         parsed |-> Parses(JObj(
            ("event" :> JStr("system.metrics")) @@
            ("payload" :> JObj(
                ("ingest" :> JObj("effective_fps" :> JNum(14600))) @@
                ("landmark" :> JObj(("healthy" :> JBool(TRUE)) @@
                                    ("frames_with_hands" :> JNum(3000)) @@
                                    ("last_frame_had_hands" :> JBool(FALSE)) @@
                                    ("queue_size" :> JNum(1000)) @@
                                    ("last_processing_ms" :> JNum(12500)))) @@
                ("translation" :> JObj("queue_size" :> JNum(1000))))))) ],
       [ data |-> "{event:system.alert,timestamp:T0,payload:{severity:ERROR,component:gemini,reason:timeout}}",
         parsed |-> Parses(JObj(
            ("event" :> JStr("system.alert")) @@
            ("timestamp" :> JStr("T0")) @@
            ("payload" :> JObj(("severity" :> JStr("ERROR")) @@
                               ("component" :> JStr("gemini")) @@
                               ("reason" :> JStr("timeout")))))) ],
       [ data |-> "{type:unknown.kind,payload:{}}",
         parsed |-> Parses(JObj(("type" :> JStr("unknown.kind")) @@
                                ("payload" :> EmptyObj))) ],
       [ data |-> "{event:unknown.kind,payload:{}}",
         parsed |-> Parses(JObj(("event" :> JStr("unknown.kind")) @@
                                ("payload" :> EmptyObj))) ],
       [ data |-> "{event:caption.final}",
         parsed |-> Parses(JObj("event" :> JStr("caption.final"))) ],
       [ data |-> "{type:caption.final,payload:text}",
         parsed |-> Parses(JObj(("type" :> JStr("caption.final")) @@
                                ("payload" :> JStr("text")))) ],
       [ data |-> "{type:system.metrics,payload:{}}",
         parsed |-> Parses(JObj(("type" :> JStr("system.metrics")) @@
                                ("payload" :> EmptyObj))) ] >>

----------------------------------------------------------------------------
(* Browser objects: WebSocket, setTimeout, setInterval *)

\* the closure variables `cancelled` and `sessionActive` of one effect run
Closure(active) == [cancelled |-> FALSE, sessionActive |-> active]

\* smallest id of `pool` that is not in `used`; Cardinality(pool) + 1 if none
FreshId(pool, used) ==
    IF pool \subseteq used THEN Cardinality(pool) + 1
    ELSE CHOOSE i \in pool \ used : \A j \in pool \ used : i <= j

Without(f, id) == [i \in DOMAIN f \ {id} |-> f[i]]

\* new WebSocket(wsUrl) with the four handlers of this closure attached
newWebSocket(closure) ==
    [ readyState |-> "CONNECTING", opened |-> FALSE, errored |-> FALSE,
      closeFired |-> FALSE,
      cancelled |-> closure.cancelled, sessionActive |-> closure.sessionActive ]

\* WebSocket.close(): starts the closing handshake unless already closing
wsClose(socks, id) ==
    IF id \in DOMAIN socks /\ socks[id].readyState \in {"CONNECTING", "OPEN"}
    THEN [socks EXCEPT ![id].readyState = "CLOSING"]
    ELSE socks

\* clearTimeout(id): a timer that already fired or was cleared is ignored
clearTimeout(tms, id) == Without(tms, id)

----------------------------------------------------------------------------
(* Connection Manager and Demo Simulator teardown *)

\* mutant: the socket is dropped from the ref but never closed
disconnectSocket_NoClose(st) ==
    LET a == IF st.reconnectTimeoutRef # 0
             THEN [st EXCEPT !.timers = clearTimeout(st.timers, st.reconnectTimeoutRef),
                             !.reconnectTimeoutRef = 0]
             ELSE st
    IN  [a EXCEPT !.wsRef = 0]

\* mutant: tearing the connection down also resets the attempt counter
disconnectSocket_ResetsAttempt(st) ==
    LET a == IF st.reconnectTimeoutRef # 0
             THEN [st EXCEPT !.timers = clearTimeout(st.timers, st.reconnectTimeoutRef),
                             !.reconnectTimeoutRef = 0]
             ELSE st
        b == [a EXCEPT !.reconnectAttemptRef = 0]
    IN  IF b.wsRef # 0
        THEN [b EXCEPT !.sockets = wsClose(b.sockets, b.wsRef), !.wsRef = 0]
        ELSE b

disconnectSocket(st) ==
    LET a == IF st.reconnectTimeoutRef # 0
             THEN [st EXCEPT !.timers = clearTimeout(st.timers, st.reconnectTimeoutRef),
                             !.reconnectTimeoutRef = 0]
             ELSE st
    IN  IF a.wsRef # 0
        THEN [a EXCEPT !.sockets = wsClose(a.sockets, a.wsRef), !.wsRef = 0]
        ELSE a

\* mutant: stopping the simulator also rewinds the phrase cursor
stopDemo_ResetsCursor(st) ==
    LET a == IF st.demoIntervalRef # 0
             THEN [st EXCEPT !.intervals = st.intervals \ {st.demoIntervalRef},
                             !.demoIntervalRef = 0]
             ELSE st
    IN  [a EXCEPT !.partialPhaseRef = FALSE, !.phraseIndexRef = 0]

\* mutant: stopping the simulator keeps the phase of the current phrase
stopDemo_KeepsPhase(st) ==
    IF st.demoIntervalRef # 0
    THEN [st EXCEPT !.intervals = st.intervals \ {st.demoIntervalRef},
                    !.demoIntervalRef = 0]
    ELSE st

stopDemo(st) ==
    LET a == IF st.demoIntervalRef # 0
             THEN [st EXCEPT !.intervals = st.intervals \ {st.demoIntervalRef},
                             !.demoIntervalRef = 0]
             ELSE st
    IN  [a EXCEPT !.partialPhaseRef = FALSE]

\* `cancelled = true` in the cleanup: every callback of that effect run sees it
setCancelled(st) ==
    [st EXCEPT
        !.sockets = [i \in DOMAIN st.sockets |-> [st.sockets[i] EXCEPT !.cancelled = TRUE]],
        !.timers = [i \in DOMAIN st.timers |-> [st.timers[i] EXCEPT !.cancelled = TRUE]]]

\* mutant: a connection attempt is shown as connected at once
connect_ShowsConnected(st, closure) ==
    IF closure.cancelled THEN st
    ELSE
        LET id == FreshId(1..MaxSockets,
                          {i \in DOMAIN st.sockets : ~st.sockets[i].closeFired})
        IN  [st EXCEPT
                !.connectionState = "connected",
                !.sockets = (id :> newWebSocket(closure)) @@ st.sockets,
                !.wsRef = id]

connect(st, closure) ==
    IF closure.cancelled THEN st
    ELSE
        LET id == FreshId(1..MaxSockets,
                          {i \in DOMAIN st.sockets : ~st.sockets[i].closeFired})
        IN  [st EXCEPT
                !.connectionState =
                    IF st.reconnectAttemptRef > 0 THEN "reconnecting" ELSE "disconnected",
                !.sockets = (id :> newWebSocket(closure)) @@ st.sockets,
                !.wsRef = id]

----------------------------------------------------------------------------
(* Socket handlers *)

\* mutant: a successful open keeps the attempt counter
onopen_NoReset(st, closure) ==
    IF closure.cancelled THEN st
    ELSE addAlert([st EXCEPT !.connectionState = "connected"],
                  [ level |-> "info", message |-> "Connected to caption stream.",
                    timestamp |-> nowIso ])

onopen(st, closure) ==
    IF closure.cancelled THEN st
    ELSE addAlert([st EXCEPT !.reconnectAttemptRef = 0,
                             !.connectionState = "connected"],
                  [ level |-> "info", message |-> "Connected to caption stream.",
                    timestamp |-> nowIso ])

\* mutant: a malformed frame also marks the connection as lost
onmessage_MalformedDisconnects(v, st, frame) ==
    IF frame.parsed.ok THEN
        LET normalized == normalizeIncomingEvent(v, frame.parsed.value)
        IN  IF normalized = NULL THEN st ELSE handleEvent(st, normalized)
    ELSE addAlert([st EXCEPT !.connectionState = "disconnected"],
                  [ level |-> "warning",
                    message |-> "Received malformed stream payload.",
                    timestamp |-> nowIso ])

\* mutant: a frame the normalizer rejects is reported like a malformed one
onmessage_AlertOnRejected(v, st, frame) ==
    IF frame.parsed.ok
          /\ normalizeIncomingEvent(v, frame.parsed.value) # NULL
    THEN handleEvent(st, normalizeIncomingEvent(v, frame.parsed.value))
    ELSE addAlert(st, [ level |-> "warning",
                        message |-> "Received malformed stream payload.",
                        timestamp |-> nowIso ])

onmessage(v, st, frame) ==
    IF frame.parsed.ok THEN
        LET normalized == normalizeIncomingEvent(v, frame.parsed.value)
        IN  IF normalized = NULL THEN st ELSE handleEvent(st, normalized)
    ELSE addAlert(st, [ level |-> "warning",
                        message |-> "Received malformed stream payload.",
                        timestamp |-> nowIso ])

\* mutant: the error handler itself moves the connection to reconnecting
onerror_SetsReconnecting(st) ==
    addAlert([st EXCEPT !.connectionState = "reconnecting"],
             [ level |-> "warning", message |-> "WebSocket transport error.",
               timestamp |-> nowIso ])

onerror(st) ==
    addAlert(st, [ level |-> "warning", message |-> "WebSocket transport error.",
                   timestamp |-> nowIso ])

\* mutant: the backoff is not capped
backoffMs_NoCap(attempt) == attempt * BACKOFF_STEP_MS

backoffMs(attempt) == Min(BACKOFF_CAP_MS, attempt * BACKOFF_STEP_MS)

\* mutant: every reconnect attempt is also reported as an alert
onclose_WithAlert(st, closure) ==
    IF closure.cancelled \/ ~closure.sessionActive THEN st
    ELSE
        LET attempt == st.reconnectAttemptRef + 1
            id == FreshId(1..MaxHandles, DOMAIN st.timers)
        IN  addAlert([st EXCEPT
                        !.connectionState = "reconnecting",
                        !.reconnectAttemptRef = attempt,
                        !.timers = (id :> [ delay |-> backoffMs(attempt),
                                            cancelled |-> closure.cancelled,
                                            sessionActive |-> closure.sessionActive ])
                                   @@ st.timers,
                        !.reconnectTimeoutRef = id],
                     [ level |-> "warning", message |-> "Reconnecting.",
                       timestamp |-> nowIso ])

\* mutant: the close handler has no guard
onclose_NoGuard(st, closure) ==
    LET attempt == st.reconnectAttemptRef + 1
        id == FreshId(1..MaxHandles, DOMAIN st.timers)
    IN  [st EXCEPT
            !.connectionState = "reconnecting",
            !.reconnectAttemptRef = attempt,
            !.timers = (id :> [ delay |-> backoffMs(attempt),
                                cancelled |-> closure.cancelled,
                                sessionActive |-> closure.sessionActive ])
                       @@ st.timers,
            !.reconnectTimeoutRef = id]

\* mutant: a close of the active socket also blanks the caption on display
onclose_BlanksCaption(st, closure) ==
    IF closure.cancelled \/ ~closure.sessionActive THEN st
    ELSE
        LET attempt == st.reconnectAttemptRef + 1
            id == FreshId(1..MaxHandles, DOMAIN st.timers)
        IN  [st EXCEPT
                !.connectionState = "reconnecting",
                !.currentCaption = NULL,
                !.reconnectAttemptRef = attempt,
                !.timers = (id :> [ delay |-> backoffMs(attempt),
                                    cancelled |-> closure.cancelled,
                                    sessionActive |-> closure.sessionActive ])
                           @@ st.timers,
                !.reconnectTimeoutRef = id]

\* mutant: the client gives up after three failed attempts
onclose_GivesUp(st, closure) ==
    IF closure.cancelled \/ ~closure.sessionActive THEN st
    ELSE
        LET attempt == st.reconnectAttemptRef + 1
            id == FreshId(1..MaxHandles, DOMAIN st.timers)
        IN  IF attempt > 3
            THEN [st EXCEPT !.connectionState = "disconnected",
                            !.reconnectAttemptRef = attempt]
            ELSE [st EXCEPT
                    !.connectionState = "reconnecting",
                    !.reconnectAttemptRef = attempt,
                    !.timers = (id :> [ delay |-> backoffMs(attempt),
                                        cancelled |-> closure.cancelled,
                                        sessionActive |-> closure.sessionActive ])
                               @@ st.timers,
                    !.reconnectTimeoutRef = id]

onclose(st, closure) ==
    IF closure.cancelled \/ ~closure.sessionActive THEN st
    ELSE
        LET attempt == st.reconnectAttemptRef + 1
            id == FreshId(1..MaxHandles, DOMAIN st.timers)
        IN  [st EXCEPT
                !.connectionState = "reconnecting",
                !.reconnectAttemptRef = attempt,
                !.timers = (id :> [ delay |-> backoffMs(attempt),
                                    cancelled |-> closure.cancelled,
                                    sessionActive |-> closure.sessionActive ])
                           @@ st.timers,
                !.reconnectTimeoutRef = id]

----------------------------------------------------------------------------
(* Demo Simulator: one run of the setInterval callback.  r1..r5 are the    *)
(* successive Math.random() results.                                       *)

\* mutant: a tick without hands leaves the partial caption on display
demoTick_NoHandsKeepsPartial(st, r1, r2, r3, r4, r5) ==
    LET handsDetected == r1 > 80
        latencyMs == Max(1200, 1500 + (r2 * 800) \div 1000)
        fps == 11 + (r3 * 5) \div 1000
        queueDepth == (r4 * 3) \div 1000
        a == handleEvent(st, [ type |-> "system.metrics",
                               payload |-> [ fps |-> fps, latency_ms |-> latencyMs,
                                             hands_detected |-> handsDetected,
                                             queue_depth |-> queueDepth ] ])
        phrase == DEMO_PHRASES[(st.phraseIndexRef % Len(DEMO_PHRASES)) + 1]
        partialText == SubSeq(phrase, 1, (Len(phrase) * 6) \div 10) \o "..."
    IN  IF ~handsDetected THEN
            addAlert(a, [ level |-> "warning", message |-> "No hands detected.",
                          timestamp |-> nowIso ])
        ELSE IF ~st.partialPhaseRef THEN
            [ handleEvent(a, [ type |-> "caption.partial",
                               payload |-> [ text |-> partialText,
                                             timestamp |-> nowIso,
                                             confidence |-> 550 + (r5 * 300) \div 1000 ] ])
              EXCEPT !.partialPhaseRef = TRUE ]
        ELSE
            [ handleEvent(a, [ type |-> "caption.final",
                               payload |-> [ text |-> phrase,
                                             timestamp |-> nowIso,
                                             confidence |-> 600 + (r5 * 350) \div 1000 ] ])
              EXCEPT !.partialPhaseRef = FALSE,
                     !.phraseIndexRef = st.phraseIndexRef + 1 ]

\* mutant: the partial caption of a tick is stored directly, not through handleEvent
demoTick_DirectPartial(st, r1, r2, r3, r4, r5) ==
    LET handsDetected == r1 > 80
        latencyMs == Max(1200, 1500 + (r2 * 800) \div 1000)
        fps == 11 + (r3 * 5) \div 1000
        queueDepth == (r4 * 3) \div 1000
        a == handleEvent(st, [ type |-> "system.metrics",
                               payload |-> [ fps |-> fps, latency_ms |-> latencyMs,
                                             hands_detected |-> handsDetected,
                                             queue_depth |-> queueDepth ] ])
        phrase == DEMO_PHRASES[(st.phraseIndexRef % Len(DEMO_PHRASES)) + 1]
        partialText == SubSeq(phrase, 1, (Len(phrase) * 6) \div 10) \o "..."
    IN  IF ~handsDetected THEN
            addAlert([a EXCEPT !.isProcessing = FALSE, !.partialCaption = NULL],
                     [ level |-> "warning", message |-> "No hands detected.",
                       timestamp |-> nowIso ])
        ELSE IF ~st.partialPhaseRef THEN
            [ a EXCEPT !.partialCaption =
                            captionFromPayload([ text |-> partialText,
                                                 timestamp |-> nowIso,
                                                 confidence |-> 550 + (r5 * 300) \div 1000 ],
                                               a.nextId),
                       !.nextId = a.nextId + 1,
                       !.partialPhaseRef = TRUE ]
        ELSE
            [ handleEvent(a, [ type |-> "caption.final",
                               payload |-> [ text |-> phrase,
                                             timestamp |-> nowIso,
                                             confidence |-> 600 + (r5 * 350) \div 1000 ] ])
              EXCEPT !.partialPhaseRef = FALSE,
                     !.phraseIndexRef = st.phraseIndexRef + 1 ]

\* mutant: a final caption does not return the simulator to phase 1
demoTick_FinalKeepsPhase(st, r1, r2, r3, r4, r5) ==
    LET handsDetected == r1 > 80
        latencyMs == Max(1200, 1500 + (r2 * 800) \div 1000)
        fps == 11 + (r3 * 5) \div 1000
        queueDepth == (r4 * 3) \div 1000
        a == handleEvent(st, [ type |-> "system.metrics",
                               payload |-> [ fps |-> fps, latency_ms |-> latencyMs,
                                             hands_detected |-> handsDetected,
                                             queue_depth |-> queueDepth ] ])
        phrase == DEMO_PHRASES[(st.phraseIndexRef % Len(DEMO_PHRASES)) + 1]
        partialText == SubSeq(phrase, 1, (Len(phrase) * 6) \div 10) \o "..."
    IN  IF ~handsDetected THEN
            addAlert([a EXCEPT !.isProcessing = FALSE, !.partialCaption = NULL],
                     [ level |-> "warning", message |-> "No hands detected.",
                       timestamp |-> nowIso ])
        ELSE IF ~st.partialPhaseRef THEN
            [ handleEvent(a, [ type |-> "caption.partial",
                               payload |-> [ text |-> partialText,
                                             timestamp |-> nowIso,
                                             confidence |-> 550 + (r5 * 300) \div 1000 ] ])
              EXCEPT !.partialPhaseRef = TRUE ]
        ELSE
            [ handleEvent(a, [ type |-> "caption.final",
                               payload |-> [ text |-> phrase,
                                             timestamp |-> nowIso,
                                             confidence |-> 600 + (r5 * 350) \div 1000 ] ])
              EXCEPT !.phraseIndexRef = st.phraseIndexRef + 1 ]

\* mutant: a partial caption does not move the simulator to phase 2
demoTick_PartialKeepsPhase(st, r1, r2, r3, r4, r5) ==
    LET handsDetected == r1 > 80
        latencyMs == Max(1200, 1500 + (r2 * 800) \div 1000)
        fps == 11 + (r3 * 5) \div 1000
        queueDepth == (r4 * 3) \div 1000
        a == handleEvent(st, [ type |-> "system.metrics",
                               payload |-> [ fps |-> fps, latency_ms |-> latencyMs,
                                             hands_detected |-> handsDetected,
                                             queue_depth |-> queueDepth ] ])
        phrase == DEMO_PHRASES[(st.phraseIndexRef % Len(DEMO_PHRASES)) + 1]
        partialText == SubSeq(phrase, 1, (Len(phrase) * 6) \div 10) \o "..."
    IN  IF ~handsDetected THEN
            addAlert([a EXCEPT !.isProcessing = FALSE, !.partialCaption = NULL],
                     [ level |-> "warning", message |-> "No hands detected.",
                       timestamp |-> nowIso ])
        ELSE IF ~st.partialPhaseRef THEN
            handleEvent(a, [ type |-> "caption.partial",
                             payload |-> [ text |-> partialText,
                                           timestamp |-> nowIso,
                                           confidence |-> 550 + (r5 * 300) \div 1000 ] ])
        ELSE
            [ handleEvent(a, [ type |-> "caption.final",
                               payload |-> [ text |-> phrase,
                                             timestamp |-> nowIso,
                                             confidence |-> 600 + (r5 * 350) \div 1000 ] ])
              EXCEPT !.partialPhaseRef = FALSE,
                     !.phraseIndexRef = st.phraseIndexRef + 1 ]

demoTick(st, r1, r2, r3, r4, r5) ==
    LET handsDetected == r1 > 80
        latencyMs == Max(1200, 1500 + (r2 * 800) \div 1000)
        fps == 11 + (r3 * 5) \div 1000
        queueDepth == (r4 * 3) \div 1000
        a == handleEvent(st, [ type |-> "system.metrics",
                               payload |-> [ fps |-> fps, latency_ms |-> latencyMs,
                                             hands_detected |-> handsDetected,
                                             queue_depth |-> queueDepth ] ])
        phrase == DEMO_PHRASES[(st.phraseIndexRef % Len(DEMO_PHRASES)) + 1]
        partialText == SubSeq(phrase, 1, (Len(phrase) * 6) \div 10) \o "..."
    IN  IF ~handsDetected THEN
            addAlert([a EXCEPT !.isProcessing = FALSE, !.partialCaption = NULL],
                     [ level |-> "warning", message |-> "No hands detected.",
                       timestamp |-> nowIso ])
        ELSE IF ~st.partialPhaseRef THEN
            [ handleEvent(a, [ type |-> "caption.partial",
                               payload |-> [ text |-> partialText,
                                             timestamp |-> nowIso,
                                             confidence |-> 550 + (r5 * 300) \div 1000 ] ])
              EXCEPT !.partialPhaseRef = TRUE ]
        ELSE
            [ handleEvent(a, [ type |-> "caption.final",
                               payload |-> [ text |-> phrase,
                                             timestamp |-> nowIso,
                                             confidence |-> 600 + (r5 * 350) \div 1000 ] ])
              EXCEPT !.partialPhaseRef = FALSE,
                     !.phraseIndexRef = st.phraseIndexRef + 1 ]

----------------------------------------------------------------------------
(* The session effect: useEffect(..., [demoMode, sessionActive, wsUrl])    *)

\* mutant: the live branch returns no cleanup function
effectCleanup_DemoOnly(st) ==
    IF st.cleanup = "demo" THEN stopDemo(st) ELSE st

\* the cleanup function the previous run returned
effectCleanup(st) ==
    IF st.cleanup = "demo" THEN stopDemo(st)
    ELSE IF st.cleanup = "live" THEN disconnectSocket(setCancelled(st))
    ELSE st

\* mutant: the inactive branch also resets the transcript
effectBody_PauseClears(v, url, st) ==
    IF ~st.sessionActive THEN
        LET a == IF v = "demo" THEN stopDemo(disconnectSocket(st))
                 ELSE disconnectSocket(st)
        IN  [a EXCEPT !.connectionState = "disconnected",
                      !.isProcessing = FALSE,
                      !.partialCaption = NULL,
                      !.transcript = << >>,
                      !.currentCaption = NULL,
                      !.cleanup = "none"]
    ELSE IF v = "demo" /\ (st.demoMode \/ ~url) THEN
        LET id == FreshId(1..MaxHandles, st.intervals)
        IN  [st EXCEPT !.connectionState = "connected",
                       !.intervals = st.intervals \cup {id},
                       !.demoIntervalRef = id,
                       !.cleanup = "demo"]
    ELSE IF v = "plain" /\ ~url THEN
        [ addAlert([st EXCEPT !.connectionState = "disconnected",
                              !.isProcessing = FALSE,
                              !.partialCaption = NULL],
                   [ level |-> "warning", message |-> "WebSocket URL not configured.",
                     timestamp |-> nowIso ])
          EXCEPT !.cleanup = "none" ]
    ELSE
        [ connect(st, Closure(st.sessionActive)) EXCEPT !.cleanup = "live" ]

\* mutant: the demoMode switch is ignored when an endpoint is configured
effectBody_IgnoresDemoMode(v, url, st) ==
    IF ~st.sessionActive THEN
        LET a == IF v = "demo" THEN stopDemo(disconnectSocket(st))
                 ELSE disconnectSocket(st)
        IN  [a EXCEPT !.connectionState = "disconnected",
                      !.isProcessing = FALSE,
                      !.partialCaption = NULL,
                      !.cleanup = "none"]
    ELSE IF v = "demo" /\ ~url THEN
        LET id == FreshId(1..MaxHandles, st.intervals)
        IN  [st EXCEPT !.connectionState = "connected",
                       !.intervals = st.intervals \cup {id},
                       !.demoIntervalRef = id,
                       !.cleanup = "demo"]
    ELSE IF v = "plain" /\ ~url THEN
        [ addAlert([st EXCEPT !.connectionState = "disconnected",
                              !.isProcessing = FALSE,
                              !.partialCaption = NULL],
                   [ level |-> "warning", message |-> "WebSocket URL not configured.",
                     timestamp |-> nowIso ])
          EXCEPT !.cleanup = "none" ]
    ELSE
        [ connect(st, Closure(st.sessionActive)) EXCEPT !.cleanup = "live" ]

\* mutant: a missing endpoint is not reported
effectBody_NoUrlSilent(v, url, st) ==
    IF ~st.sessionActive THEN
        LET a == IF v = "demo" THEN stopDemo(disconnectSocket(st))
                 ELSE disconnectSocket(st)
        IN  [a EXCEPT !.connectionState = "disconnected",
                      !.isProcessing = FALSE,
                      !.partialCaption = NULL,
                      !.cleanup = "none"]
    ELSE IF v = "demo" /\ (st.demoMode \/ ~url) THEN
        LET id == FreshId(1..MaxHandles, st.intervals)
        IN  [st EXCEPT !.connectionState = "connected",
                       !.intervals = st.intervals \cup {id},
                       !.demoIntervalRef = id,
                       !.cleanup = "demo"]
    ELSE IF v = "plain" /\ ~url THEN
        [st EXCEPT !.connectionState = "disconnected",
                   !.isProcessing = FALSE,
                   !.partialCaption = NULL,
                   !.cleanup = "none"]
    ELSE
        [ connect(st, Closure(st.sessionActive)) EXCEPT !.cleanup = "live" ]

\* mutant: every run of the inactive branch reports the stop as an alert
effectBody_PauseAlerts(v, url, st) ==
    IF ~st.sessionActive THEN
        LET a == IF v = "demo" THEN stopDemo(disconnectSocket(st))
                 ELSE disconnectSocket(st)
        IN  addAlert([a EXCEPT !.connectionState = "disconnected",
                               !.isProcessing = FALSE,
                               !.partialCaption = NULL,
                               !.cleanup = "none"],
                     [ level |-> "info", message |-> "Session paused.",
                       timestamp |-> nowIso ])
    ELSE IF v = "demo" /\ (st.demoMode \/ ~url) THEN
        LET id == FreshId(1..MaxHandles, st.intervals)
        IN  [st EXCEPT !.connectionState = "connected",
                       !.intervals = st.intervals \cup {id},
                       !.demoIntervalRef = id,
                       !.cleanup = "demo"]
    ELSE IF v = "plain" /\ ~url THEN
        [st EXCEPT !.connectionState = "disconnected",
                   !.isProcessing = FALSE,
                   !.partialCaption = NULL,
                   !.cleanup = "none"]
    ELSE
        [ connect(st, Closure(st.sessionActive)) EXCEPT !.cleanup = "live" ]

effectBody(v, url, st) ==
    IF ~st.sessionActive THEN
        LET a == IF v = "demo" THEN stopDemo(disconnectSocket(st))
                 ELSE disconnectSocket(st)
        IN  [a EXCEPT !.connectionState = "disconnected",
                      !.isProcessing = FALSE,
                      !.partialCaption = NULL,
                      !.cleanup = "none"]
    ELSE IF v = "demo" /\ (st.demoMode \/ ~url) THEN
        LET id == FreshId(1..MaxHandles, st.intervals)
        IN  [st EXCEPT !.connectionState = "connected",
                       !.intervals = st.intervals \cup {id},
                       !.demoIntervalRef = id,
                       !.cleanup = "demo"]
    ELSE IF v = "plain" /\ ~url THEN
        [ addAlert([st EXCEPT !.connectionState = "disconnected",
                              !.isProcessing = FALSE,
                              !.partialCaption = NULL],
                   [ level |-> "warning", message |-> "WebSocket URL not configured.",
                     timestamp |-> nowIso ])
          EXCEPT !.cleanup = "none" ]
    ELSE
        [ connect(st, Closure(st.sessionActive)) EXCEPT !.cleanup = "live" ]

\* a re-render with changed dependencies: old cleanup, then the new body
runEffect(v, url, st) == effectBody(v, url, effectCleanup(st))

----------------------------------------------------------------------------
(* Specification *)

DefaultMetrics ==
    [ fps |-> 0, latency_ms |-> 0, hands_detected |-> FALSE, queue_depth |-> 0 ]

\* the bounds of the model, as a guard on the state an action produces
WithinBounds(st) ==
    /\ st.nextId <= MaxIds + 1
    /\ DOMAIN st.sockets \subseteq 1..MaxSockets
    /\ DOMAIN st.timers \subseteq 1..MaxHandles
    /\ st.intervals \subseteq 1..MaxHandles
    /\ st.reconnectAttemptRef <= MaxAttempt
    /\ st.phraseIndexRef <= MaxPhraseIndex

Step(st0) == \E st \in {Collect(st0)} : WithinBounds(st) /\ Commit(st)

\* refs and browser objects of a hook with no producer running
InitIdle ==
    /\ connectionState = "disconnected"
    /\ partialCaption = NULL
    /\ isProcessing = FALSE
    /\ metrics = DefaultMetrics
    /\ wsRef = 0
    /\ reconnectTimeoutRef = 0
    /\ demoIntervalRef = 0
    /\ reconnectAttemptRef = 0
    /\ partialPhaseRef = FALSE
    /\ phraseIndexRef = 0
    /\ sockets = << >>
    /\ timers = << >>
    /\ intervals = {}
    /\ cleanup = "none"
    /\ nextId = 1

\* the useState/useRef initial values, before the first effect run
Init ==
    /\ InitIdle
    /\ variant \in {"demo", "plain"}
    /\ wsUrl \in BOOLEAN
    /\ mounted = FALSE
    /\ sessionActive = (variant = "plain")
    /\ demoMode = (variant = "demo" /\ ~wsUrl)
    /\ currentCaption = NULL
    /\ transcript = << >>
    /\ alerts = << >>
    /\ inbox = NULL

\* first commit: the effect runs with no previous cleanup
Mount ==
    /\ ~mounted
    /\ Step(effectBody(variant, wsUrl, [S EXCEPT !.mounted = TRUE]))

startSession ==
    /\ mounted
    /\ IF sessionActive THEN UNCHANGED vars
       ELSE Step(runEffect(variant, wsUrl, [S EXCEPT !.sessionActive = TRUE]))

pauseSession ==
    /\ mounted
    /\ IF ~sessionActive THEN UNCHANGED vars
       ELSE Step(runEffect(variant, wsUrl, [S EXCEPT !.sessionActive = FALSE]))

setDemoMode(value) ==
    /\ mounted
    /\ variant = "demo"
    /\ IF demoMode = value THEN UNCHANGED vars
       ELSE Step(runEffect(variant, wsUrl, [S EXCEPT !.demoMode = value]))

\* mutant: clearing the transcript also clears the alerts
clearTranscript_AlsoAlerts ==
    /\ mounted
    /\ Step([S EXCEPT !.transcript = << >>,
                      !.currentCaption = NULL,
                      !.partialCaption = NULL,
                      !.alerts = << >>,
                      !.isProcessing = FALSE])

\* mutant: clearing the transcript leaves the current caption on display
clearTranscript_KeepsCurrent ==
    /\ mounted
    /\ Step([S EXCEPT !.transcript = << >>,
                      !.partialCaption = NULL,
                      !.isProcessing = FALSE])

\* mutant: clearing the transcript leaves the processing flag as it is
clearTranscript_KeepsProcessing ==
    /\ mounted
    /\ Step([S EXCEPT !.transcript = << >>,
                      !.currentCaption = NULL,
                      !.partialCaption = NULL])

clearTranscript ==
    /\ mounted
    /\ Step([S EXCEPT !.transcript = << >>,
                      !.currentCaption = NULL,
                      !.partialCaption = NULL,
                      !.isProcessing = FALSE])

WsOpen(id) ==
    /\ id \in DOMAIN sockets
    /\ sockets[id].readyState = "CONNECTING"
    /\ Step(onopen([S EXCEPT !.sockets[id].readyState = "OPEN",
                             !.sockets[id].opened = TRUE], sockets[id]))

WsMessage(id, k) ==
    /\ id \in DOMAIN sockets
    /\ sockets[id].readyState = "OPEN"
    /\ Step(onmessage(variant, S, WireFrames[k]))

WsError(id) ==
    /\ id \in DOMAIN sockets
    /\ ~sockets[id].errored
    /\ ~sockets[id].closeFired
    /\ Step(onerror([S EXCEPT !.sockets[id].errored = TRUE,
                              !.sockets[id].readyState = "CLOSED"]))

WsClose(id) ==
    /\ id \in DOMAIN sockets
    /\ ~sockets[id].closeFired
    /\ Step(onclose([S EXCEPT !.sockets[id].closeFired = TRUE,
                              !.sockets[id].readyState = "CLOSED"], sockets[id]))

ReconnectTimer(id) ==
    /\ id \in DOMAIN timers
    /\ Step(connect([S EXCEPT !.timers = Without(timers, id)], timers[id]))

DemoTick(id) ==
    /\ id \in intervals
    /\ \E r \in TickDraws : Step(demoTick(S, r[1], r[2], r[3], r[4], r[5]))

Next ==
    \/ Mount
    \/ startSession
    \/ pauseSession
    \/ \E value \in BOOLEAN : setDemoMode(value)
    \/ clearTranscript
    \/ \E id \in 1..MaxSockets : WsOpen(id)
    \/ \E id \in 1..MaxSockets, k \in 1..Len(WireFrames) : WsMessage(id, k)
    \/ \E id \in 1..MaxSockets : WsError(id)
    \/ \E id \in 1..MaxSockets : WsClose(id)
    \/ \E id \in 1..MaxHandles : ReconnectTimer(id)
    \/ \E id \in 1..MaxHandles : DemoTick(id)

Spec == Init /\ [][Next]_vars

----------------------------------------------------------------------------------------------------------------------------------------
(* A long-running page.  The lists only reach their bounds after hundreds  *)
(* of events, so SpecFull also starts from the state of a live session     *)
(* that connected at its first attempt and has since received              *)
(* HistoryAlerts - 1 system.alert frames and HistoryCaptions caption.final *)
(* frames over its socket.                                                 *)

HistoryCaptions == MAX_TRANSCRIPT_ENTRIES - 1
HistoryAlerts == MAX_ALERT_ENTRIES - 1

\* entries minted before the behaviour starts carry ids below 1
OldCaption(i) ==
    [ text |-> "Hello", timestamp |-> "2024-01-01T00:00:00Z", confidence |-> 1000,
      id |-> 0 - i, confidenceLevel |-> confidenceLevelFor(1000) ]

OldAlert(i) ==
    IF i = HistoryAlerts
    THEN [ level |-> "info", message |-> "Connected to caption stream.",
           timestamp |-> nowIso, id |-> 0 - (MAX_TRANSCRIPT_ENTRIES + i) ]
    ELSE [ level |-> "error", message |-> "gemini: timeout", timestamp |-> "T0",
           id |-> 0 - (MAX_TRANSCRIPT_ENTRIES + i) ]

InitFull ==
    /\ variant \in {"demo", "plain"}
    /\ wsUrl = TRUE
    /\ mounted = TRUE
    /\ sessionActive = TRUE
    /\ demoMode = FALSE
    /\ connectionState = "connected"
    /\ transcript = [i \in 1..HistoryCaptions |-> OldCaption(i)]
    /\ alerts = [i \in 1..HistoryAlerts |-> OldAlert(i)]
    /\ currentCaption = transcript[1]
    /\ partialCaption = NULL
    /\ isProcessing = FALSE
    /\ metrics = DefaultMetrics
    /\ wsRef = 1
    /\ reconnectTimeoutRef = 0
    /\ demoIntervalRef = 0
    /\ reconnectAttemptRef = 0
    /\ partialPhaseRef = FALSE
    /\ phraseIndexRef = 0
    /\ sockets = (1 :> [newWebSocket(Closure(TRUE)) EXCEPT !.readyState = "OPEN",
                                                          !.opened = TRUE])
    /\ timers = << >>
    /\ intervals = {}
    /\ cleanup = "live"
    /\ nextId = 1
    /\ inbox = NULL

SpecFull == (Init \/ InitFull) /\ [][Next]_vars

----------------------------------------------------------------------------
(* The Event Normalizer on arbitrary decoded frames.  A scripted backend   *)
(* sends one fixed frame, any number of times, to a connected session;     *)
(* the simulator of a demo session draws from the whole range of           *)
(* Math.random().                                                          *)

\* one property of an object literal; an undefined value is an absent key
Field(key, value) == IF value = JUndef THEN << >> ELSE key :> value

\* what a backend can put in a confidence field
ConfidenceInputs ==
    { JUndef, JNull, JBool(TRUE), JNonFinite, JStr("0.3"), JStr("high"),
      JNum(0 - 200), JNum(0), JNum(449), JNum(450), JNum(749), JNum(750),
      JNum(1000), JNum(1400) }

\* a caption frame in either envelope shape
CaptionEnvelope(shape, eventType, confidence) ==
    JObj(Field(shape, JStr(eventType)) @@
         Field("timestamp", IF shape = "event" THEN JStr("T0") ELSE JUndef) @@
         Field("payload", JObj(Field("text", JStr("Hi")) @@
                               Field("confidence", confidence))))

\* a system.alert frame of shape {event, timestamp, payload}
AlertEnvelope(severity, component, reason, timestamp) ==
    JObj(Field("event", JStr("system.alert")) @@
         Field("timestamp", JStr("T0")) @@
         Field("payload", JObj(Field("severity", severity) @@
                               Field("component", component) @@
                               Field("reason", reason) @@
                               Field("timestamp", timestamp))))

\* a system.metrics frame whose landmark stage reports the three hands fields
MetricsEnvelope(flag, healthy, count) ==
    JObj(Field("event", JStr("system.metrics")) @@
         Field("payload", JObj(
            Field("ingest", JObj(Field("effective_fps", JNum(14600)))) @@
            Field("landmark", JObj(Field("last_frame_had_hands", flag) @@
                                   Field("healthy", healthy) @@
                                   Field("frames_with_hands", count))))))

NormalizerInputs ==
    { CaptionEnvelope(shape, eventType, confidence) :
        shape \in {"type", "event"},
        eventType \in {"caption.partial", "caption.final"},
        confidence \in ConfidenceInputs }
    \cup
    { AlertEnvelope(severity, component, reason, timestamp) :
        severity \in {JUndef, JStr("error"), JStr("warning"), JStr("ERROR"), JStr("Warning"),
                      JStr("fatal"), JNum(2000)},
        component \in {JUndef, JStr("gemini"), JNum(1000)},
        reason \in {JUndef, JStr("timeout"), JNull},
        timestamp \in {JUndef, JStr("T1"), JNum(5000)} }
    \cup
    { MetricsEnvelope(flag, healthy, count) :
        flag \in {JUndef, JBool(TRUE), JBool(FALSE), JStr("yes")},
        healthy \in {JUndef, JBool(TRUE), JBool(FALSE)},
        count \in {JUndef, JNum(0), JNum(3000)} }

\* Math.random() outcomes of one tick over the range of the confidence draw
WideTickDraws ==
    { << 60, 0, 0, 0, 0 >>, << 80, 0, 0, 0, 0 >>, << 81, 0, 0, 0, 0 >>,
      << 500, 500, 500, 500, 500 >>, << 999, 999, 999, 999, 999 >> }

\* the message event of the scripted frame
Deliver(id) ==
    /\ inbox # NULL
    /\ id \in DOMAIN sockets
    /\ sockets[id].readyState = "OPEN"
    /\ Step(onmessage(variant, S, inbox))

DemoTickWide(id) ==
    /\ id \in intervals
    /\ \E r \in WideTickDraws : Step(demoTick(S, r[1], r[2], r[3], r[4], r[5]))

\* a connected live session (its "Connected" alert is entry 0) with a
\* scripted backend, or a running demo session
InitNormalizer ==
    /\ variant \in {"demo", "plain"}
    /\ mounted = TRUE
    /\ sessionActive = TRUE
    /\ connectionState = "connected"
    /\ currentCaption = NULL
    /\ partialCaption = NULL
    /\ transcript = << >>
    /\ isProcessing = FALSE
    /\ metrics = DefaultMetrics
    /\ reconnectTimeoutRef = 0
    /\ reconnectAttemptRef = 0
    /\ partialPhaseRef = FALSE
    /\ phraseIndexRef = 0
    /\ timers = << >>
    /\ nextId = 1
    /\ \/ /\ wsUrl = TRUE
          /\ demoMode = FALSE
          /\ alerts = << [ level |-> "info", message |-> "Connected to caption stream.",
                           timestamp |-> nowIso, id |-> 0 ] >>
          /\ wsRef = 1
          /\ sockets = (1 :> [newWebSocket(Closure(TRUE)) EXCEPT !.readyState = "OPEN",
                                                                !.opened = TRUE])
          /\ demoIntervalRef = 0
          /\ intervals = {}
          /\ cleanup = "live"
          /\ inbox \in {[data |-> "", parsed |-> Parses(raw)] : raw \in NormalizerInputs}
       \/ /\ variant = "demo"
          /\ wsUrl \in BOOLEAN
          /\ demoMode = TRUE
          /\ alerts = << >>
          /\ wsRef = 0
          /\ sockets = << >>
          /\ demoIntervalRef = 1
          /\ intervals = {1}
          /\ cleanup = "demo"
          /\ inbox = NULL

NextNormalizer ==
    \/ \E id \in 1..MaxSockets : Deliver(id)
    \/ \E id \in 1..MaxHandles : DemoTickWide(id)

SpecNormalizer == InitNormalizer /\ [][NextNormalizer]_vars

----------------------------------------------------------------------------
(* Properties *)

----------------------------------------------------------------------------
(* The Event Normalizer on arbitrary envelopes: a scripted backend sends   *)
(* one decoded value, an object with any combination of `type`, `event`    *)
(* and `payload` or no object at all, to a connected session.              *)

\* what a backend can put in the `type` or `event` field
NameInputs ==
    { JUndef, JNum(1000), JStr("unknown.kind"), JStr("caption.partial"),
      JStr("caption.final"), JStr("system.metrics"), JStr("system.alert") }

\* what a backend can put in the `payload` field
PayloadInputs ==
    { JUndef, JNull, JStr("text"), EmptyObj,
      JObj(Field("text", JStr("Hi")) @@ Field("confidence", JNum(500)) @@
           Field("severity", JStr("warning")) @@ Field("component", JStr("gemini")) @@
           Field("reason", JStr("timeout"))) }

EnvelopeInputs ==
    { JNull, JNum(42000), JStr("caption.final"), JBool(TRUE) }
    \cup
    { JObj(Field("type", type) @@ Field("event", event) @@ Field("payload", payload)) :
        type \in NameInputs, event \in NameInputs, payload \in PayloadInputs }

\* a connected live session (its "Connected" alert is entry 0) with a
\* scripted backend
InitEnvelope ==
    /\ variant \in {"demo", "plain"}
    /\ wsUrl = TRUE
    /\ mounted = TRUE
    /\ sessionActive = TRUE
    /\ demoMode = FALSE
    /\ connectionState = "connected"
    /\ currentCaption = NULL
    /\ partialCaption = NULL
    /\ transcript = << >>
    /\ alerts = << [ level |-> "info", message |-> "Connected to caption stream.",
                     timestamp |-> nowIso, id |-> 0 ] >>
    /\ isProcessing = FALSE
    /\ metrics = DefaultMetrics
    /\ wsRef = 1
    /\ reconnectTimeoutRef = 0
    /\ demoIntervalRef = 0
    /\ reconnectAttemptRef = 0
    /\ partialPhaseRef = FALSE
    /\ phraseIndexRef = 0
    /\ sockets = (1 :> [newWebSocket(Closure(TRUE)) EXCEPT !.readyState = "OPEN",
                                                          !.opened = TRUE])
    /\ timers = << >>
    /\ intervals = {}
    /\ cleanup = "live"
    /\ nextId = 1
    /\ inbox \in {[data |-> "", parsed |-> Parses(raw)] : raw \in EnvelopeInputs}

NextEnvelope == \E id \in 1..MaxSockets : Deliver(id)

SpecEnvelope == InitEnvelope /\ [][NextEnvelope]_vars

TypeOK ==
    /\ connectionState \in {"connected", "reconnecting", "disconnected"}
    /\ nextId \in 1..(MaxIds + 1)

\* `new` is `old` with one entry put in front and, at the bound, the last dropped
Prepended(old, new, max) ==
    /\ Len(new) >= 1
    /\ Tail(new) = SubSeq(old, 1, Min(Len(old), max - 1))

\* the frame is decoded and normalized to an event of the given type
FrameYields(k, type) ==
    /\ WireFrames[k].parsed.ok
    /\ normalizeIncomingEvent(variant, WireFrames[k].parsed.value) # NULL
    /\ normalizeIncomingEvent(variant, WireFrames[k].parsed.value).type = type

\* the phrase the simulator's cursor points at
CurrentPhrase == DEMO_PHRASES[(phraseIndexRef % Len(DEMO_PHRASES)) + 1]

(* C1: in every reachable state transcript holds at most 200 entries and   *)
(* alerts at most 20; a step that changes one of the lists either empties  *)
(* the transcript (clearTranscript) or puts one entry in front and, when   *)
(* the list was full, drops only its last (oldest) entry.                  *)
C1_ListsBounded ==
    /\ Len(transcript) <= MAX_TRANSCRIPT_ENTRIES
    /\ Len(alerts) <= MAX_ALERT_ENTRIES
    /\ [][ /\ Len(transcript') <= MAX_TRANSCRIPT_ENTRIES
           /\ Len(alerts') <= MAX_ALERT_ENTRIES
           /\ \/ transcript' = transcript
              \/ transcript' = << >>
              \/ Prepended(transcript, transcript', MAX_TRANSCRIPT_ENTRIES)
           /\ \/ alerts' = alerts
              \/ Prepended(alerts, alerts', MAX_ALERT_ENTRIES) ]_vars

\* a full transcript took one more final caption and lost only its oldest entry
C1_Witness ==
    /\ Len(transcript) = MAX_TRANSCRIPT_ENTRIES
    /\ transcript[1].id = 2
    /\ transcript[2].id = 1
    /\ transcript[MAX_TRANSCRIPT_ENTRIES].id = 0 - (HistoryCaptions - 1)

(* C2: a step that handles a caption.final event, from the socket or from  *)
(* the simulator, ends with partialCaption = null, currentCaption the      *)
(* entry built from that event (its text is the final text), that entry at *)
(* the head of transcript, and isProcessing = false.                       *)
C2_FinalCommits ==
    [][ /\ \A id \in 1..MaxSockets, k \in 1..Len(WireFrames) :
              WsMessage(id, k) /\ FrameYields(k, "caption.final") =>
                  /\ partialCaption' = NULL
                  /\ currentCaption' = captionFromPayload(
                        normalizeIncomingEvent(variant, WireFrames[k].parsed.value).payload,
                        nextId)
                  /\ currentCaption'.text =
                        toString(Get(Get(WireFrames[k].parsed.value, "payload"), "text"), "")
                  /\ transcript'[1] = currentCaption'
                  /\ ~isProcessing'
       /\ \A id \in 1..MaxHandles :
              DemoTick(id) /\ metrics'.hands_detected /\ partialPhaseRef =>
                  /\ partialCaption' = NULL
                  /\ currentCaption' # NULL
                  /\ currentCaption'.id = nextId
                  /\ currentCaption'.text = CurrentPhrase
                  /\ transcript'[1] = currentCaption'
                  /\ ~isProcessing' ]_vars

\* a live caption.partial (id 1) was followed by a caption.final (id 2)
C2_Witness ==
    /\ nextId = 3
    /\ Len(alerts) = HistoryAlerts
    /\ Len(transcript) = MAX_TRANSCRIPT_ENTRIES
    /\ transcript[1].id = 2
    /\ transcript[2].id = 0 - 1
    /\ currentCaption = transcript[1]
    /\ currentCaption.text = "Hello"
    /\ partialCaption = NULL

(* C3: pauseSession in an active session ends, its teardown included, with *)
(* sessionActive = false, partialCaption = null, isProcessing = false and  *)
(* connectionState = disconnected, and with transcript, alerts,            *)
(* currentCaption and metrics as they were.                                *)
C3_PauseKeepsHistory ==
    [][ pauseSession /\ sessionActive =>
            /\ ~sessionActive'
            /\ partialCaption' = NULL
            /\ ~isProcessing'
            /\ connectionState' = "disconnected"
            /\ UNCHANGED << transcript, alerts, currentCaption, metrics >> ]_vars

\* paused with history in place after a partial caption (id 1) had been showing
C3_Witness ==
    /\ variant = "plain"
    /\ ~sessionActive
    /\ nextId = 2
    /\ Len(transcript) = HistoryCaptions
    /\ Len(alerts) = HistoryAlerts
    /\ currentCaption = transcript[1]
    /\ partialCaption = NULL
    /\ connectionState = "disconnected"

(* C4: clearTranscript empties transcript, sets currentCaption and         *)
(* partialCaption to null and isProcessing to false, and changes nothing   *)
(* else: connectionState, alerts, metrics, sessionActive, the socket, the  *)
(* reconnect timer, the attempt counter and the simulator are untouched.   *)
C4_ClearOnlyCaptions ==
    [][ clearTranscript =>
            /\ transcript' = << >>
            /\ currentCaption' = NULL
            /\ partialCaption' = NULL
            /\ ~isProcessing'
            /\ UNCHANGED << connectionState, alerts, metrics, sessionActive,
                            demoMode, wsRef, reconnectTimeoutRef, demoIntervalRef,
                            reconnectAttemptRef, partialPhaseRef, phraseIndexRef,
                            sockets, timers, intervals, cleanup >> ]_vars

\* the history of a connected session was cleared while its socket stayed open
C4_Witness ==
    /\ transcript = << >>
    /\ currentCaption = NULL
    /\ Len(alerts) = HistoryAlerts
    /\ sessionActive
    /\ connectionState = "connected"
    /\ wsRef # 0
    /\ sockets[wsRef].readyState = "OPEN"

\* the close callback of socket `id` runs for a session instance that is
\* still current: its closure has cancelled = false and sessionActive = true
ActiveClose(id) ==
    /\ WsClose(id)
    /\ ~sockets[id].cancelled
    /\ sockets[id].sessionActive

\* 2000, 4000, 6000, 8000, 10000, 10000, ...
ExpectedDelay(k) == IF k < 5 THEN << 2000, 4000, 6000, 8000 >>[k] ELSE 10000

\* exactly one alert was minted and put in front of the list
OneNewAlert(level) ==
    /\ Prepended(alerts, alerts', MAX_ALERT_ENTRIES)
    /\ alerts'[1].id = nextId
    /\ alerts'[1].level = level
    /\ nextId' = nextId + 1

(* C5: the attempt counter counts the closes of the current session        *)
(* instance since the last successful open (only such a close adds 1 and   *)
(* only an open resets it), and the k-th of them schedules the reconnect   *)
(* with delay 2000, 4000, 6000, 8000, 10000, 10000, ...; every pending     *)
(* timer has a delay between 2000 and 10000.                               *)
C5_BackoffSequence ==
    /\ reconnectAttemptRef = 0
    /\ [][ /\ \A id \in 1..MaxSockets :
                ActiveClose(id) =>
                    /\ reconnectAttemptRef' = reconnectAttemptRef + 1
                    /\ reconnectTimeoutRef' \in DOMAIN timers'
                    /\ reconnectTimeoutRef' \notin DOMAIN timers
                    /\ timers'[reconnectTimeoutRef'].delay =
                            ExpectedDelay(reconnectAttemptRef + 1)
           /\ reconnectAttemptRef' # reconnectAttemptRef =>
                \/ \E id \in 1..MaxSockets :
                        ActiveClose(id) /\ reconnectAttemptRef' = reconnectAttemptRef + 1
                \/ \E id \in 1..MaxSockets :
                        WsOpen(id) /\ reconnectAttemptRef' = 0
           /\ \A t \in DOMAIN timers' :
                timers'[t].delay >= 2000 /\ timers'[t].delay <= 10000 ]_vars

\* the sixth close in a row is waiting for its (capped) 10000 ms timer
C5_Witness ==
    /\ reconnectAttemptRef = 6
    /\ reconnectTimeoutRef \in DOMAIN timers
    /\ timers[reconnectTimeoutRef].delay = 10000

(* C6: an open callback of the current session instance resets the attempt *)
(* counter to 0, sets connectionState to connected and puts exactly one    *)
(* info alert in front of alerts; the close of a socket that had opened    *)
(* schedules the reconnect with delay 2000.                                *)
C6_OpenResetsBackoff ==
    [][ \A id \in 1..MaxSockets :
            /\ WsOpen(id) /\ ~sockets[id].cancelled =>
                    /\ reconnectAttemptRef' = 0
                    /\ connectionState' = "connected"
                    /\ OneNewAlert("info")
            /\ ActiveClose(id) /\ sockets[id].opened =>
                    /\ reconnectAttemptRef' = 1
                    /\ timers'[reconnectTimeoutRef'].delay = 2000 ]_vars

\* a transport error, then an open, then a close: the timer waits 2000 ms
C6_Witness ==
    /\ Len(alerts) = 2
    /\ alerts[1].message = "Connected to caption stream."
    /\ alerts[2].message = "WebSocket transport error."
    /\ connectionState = "reconnecting"
    /\ reconnectAttemptRef = 1
    /\ reconnectTimeoutRef \in DOMAIN timers
    /\ timers[reconnectTimeoutRef].delay = 2000

(* C7: a frame that fails JSON decoding puts exactly one warning alert in  *)
(* front of alerts and changes nothing else; the socket stays open.        *)
C7_MalformedFrame ==
    [][ \A id \in 1..MaxSockets, k \in 1..Len(WireFrames) :
            WsMessage(id, k) /\ ~WireFrames[k].parsed.ok =>
                /\ OneNewAlert("warning")
                /\ sockets'[id].readyState = "OPEN"
                /\ UNCHANGED << currentCaption, partialCaption, transcript,
                                isProcessing, metrics, connectionState,
                                sessionActive, demoMode, reconnectAttemptRef,
                                wsRef, reconnectTimeoutRef, sockets, timers,
                                intervals, demoIntervalRef, partialPhaseRef,
                                phraseIndexRef, cleanup >> ]_vars

\* the malformed frame was reported and the connection is still up
C7_Witness ==
    /\ alerts # << >>
    /\ alerts[1].message = "Received malformed stream payload."
    /\ alerts[1].level = "warning"
    /\ connectionState = "connected"
    /\ wsRef # 0
    /\ sockets[wsRef].readyState = "OPEN"

\* frames that decode but are no event: a non-object value, neither
\* envelope shape, or an event name outside the vocabulary
RejectedFrame(k) ==
    WireFrames[k].data \in { "42", "null", "{type:unknown.kind,payload:{}}",
                             "{event:unknown.kind,payload:{}}",
                             "{event:caption.final}",
                             "{type:caption.final,payload:text}" }

(* C8: a frame that decodes but that the normalizer rejects changes no     *)
(* part of the state: no alert, no caption, no connection state, no        *)
(* counter.                                                                *)
C8_RejectedFrameDropped ==
    [][ \A id \in 1..MaxSockets, k \in 1..Len(WireFrames) :
            WsMessage(id, k) /\ RejectedFrame(k) => UNCHANGED vars ]_vars

\* a connected session whose socket can deliver such a frame
C8_Witness ==
    /\ connectionState = "connected"
    /\ wsRef # 0
    /\ sockets[wsRef].readyState = "OPEN"
    /\ ~sockets[wsRef].cancelled
    /\ \E k \in 1..Len(WireFrames) : RejectedFrame(k) /\ ENABLED WsMessage(wsRef, k)

(* C9: an error callback puts exactly one warning alert in front of alerts *)
(* and changes nothing else (connectionState, the attempt counter, the     *)
(* timers and sessionActive stay as they are); the close callback that     *)
(* follows it in the current session instance is what sets reconnecting.   *)
C9_ErrorOnlyAlerts ==
    [][ \A id \in 1..MaxSockets :
            /\ WsError(id) =>
                    /\ OneNewAlert("warning")
                    /\ UNCHANGED << currentCaption, partialCaption, transcript,
                                    isProcessing, metrics, connectionState,
                                    sessionActive, demoMode, reconnectAttemptRef,
                                    wsRef, reconnectTimeoutRef, timers, intervals,
                                    demoIntervalRef, partialPhaseRef,
                                    phraseIndexRef, cleanup >>
            /\ ActiveClose(id) /\ sockets[id].errored =>
                    connectionState' = "reconnecting" ]_vars

\* the error of an open socket was reported while the state still says connected
C9_Witness ==
    /\ alerts # << >>
    /\ alerts[1].message = "WebSocket transport error."
    /\ connectionState = "connected"
    /\ sessionActive
    /\ timers = << >>

(* C10: a close callback of the current session instance sets              *)
(* connectionState to reconnecting, adds exactly 1 to the attempt counter, *)
(* schedules exactly one reconnect timer and adds no alert.                *)
C10_CloseSchedulesReconnect ==
    [][ \A id \in 1..MaxSockets :
            ActiveClose(id) =>
                /\ connectionState' = "reconnecting"
                /\ reconnectAttemptRef' = reconnectAttemptRef + 1
                /\ Cardinality(DOMAIN timers') = Cardinality(DOMAIN timers) + 1
                /\ DOMAIN timers \subseteq DOMAIN timers'
                /\ alerts' = alerts
                /\ nextId' = nextId ]_vars

\* the first close of a session: one timer pending, no alert
C10_Witness ==
    /\ sessionActive
    /\ connectionState = "reconnecting"
    /\ reconnectAttemptRef = 1
    /\ Cardinality(DOMAIN timers) = 1
    /\ alerts = << >>

\* the socket object wsRef.current points at, null if none
CurrentSocket == IF wsRef \in DOMAIN sockets THEN sockets[wsRef] ELSE NULL

\* sockets that are connecting or open
LiveSockets == {i \in DOMAIN sockets : sockets[i].readyState \in {"CONNECTING", "OPEN"}}

(* C11: in every reachable state at most one socket is connecting or open  *)
(* and at most one reconnect timer is pending.                             *)
C11_SingleConnection ==
    /\ Cardinality(LiveSockets) <= 1
    /\ Cardinality(DOMAIN timers) <= 1

\* after a pause/start cycle: the old socket is still closing, the new one connects
C11_Witness ==
    /\ Cardinality(DOMAIN sockets) = 2
    /\ Cardinality(LiveSockets) = 1
    /\ \E i \in DOMAIN sockets : sockets[i].readyState = "CLOSING" /\ sockets[i].cancelled
    /\ wsRef \in LiveSockets
    /\ sessionActive

(* C12: the demo interval never coexists with a connecting or open socket  *)
(* or with a pending reconnect timer, there is at most one interval, and   *)
(* startSession in an active session changes nothing.                      *)
C12_SingleProducer ==
    /\ [](/\ Cardinality(intervals) <= 1
          /\ intervals # {} => LiveSockets = {} /\ DOMAIN timers = {})
    /\ [][ startSession /\ sessionActive => UNCHANGED vars ]_vars

\* demoMode was switched on during a live session: the simulator runs while
\* the socket of the live producer is still closing
C12_Witness ==
    /\ variant = "demo"
    /\ wsUrl
    /\ demoMode
    /\ sessionActive
    /\ intervals # {}
    /\ \E i \in DOMAIN sockets : sockets[i].readyState = "CLOSING"

(* C13: once the session is stopped, a callback of a torn-down socket      *)
(* (open, message, error or close) changes no field of the aggregate       *)
(* state, not connectionState nor the attempt counter, and opens or        *)
(* schedules nothing; cleared timers and intervals never fire.             *)
C13_LateCallbacksNoOp ==
    [][ \A id \in 1..MaxSockets :
            /\ ~sessionActive
            /\ id \in DOMAIN sockets
            /\ sockets[id].cancelled
            /\ \/ WsOpen(id)
               \/ WsError(id)
               \/ WsClose(id)
               \/ \E k \in 1..Len(WireFrames) : WsMessage(id, k)
            => UNCHANGED << currentCaption, partialCaption, transcript, alerts,
                            isProcessing, metrics, connectionState, sessionActive,
                            reconnectAttemptRef, CurrentSocket,
                            reconnectTimeoutRef, timers, intervals >> ]_vars

(* C14: while the session is stopped connectionState is disconnected, no   *)
(* socket is connecting or open and no reconnect timer is pending; a close *)
(* callback that fires then, or for a torn-down socket, changes neither    *)
(* connectionState nor the attempt counter and schedules no timer.         *)
C14_LateCloseNoOp ==
    /\ [](~sessionActive =>
            /\ connectionState = "disconnected"
            /\ LiveSockets = {}
            /\ DOMAIN timers = {})
    /\ [][ \A id \in 1..MaxSockets :
            WsClose(id) /\ (~sessionActive \/ sockets[id].cancelled) =>
                UNCHANGED << connectionState, reconnectAttemptRef, timers,
                             reconnectTimeoutRef, CurrentSocket, alerts >> ]_vars

\* a session that connected once and was paused; the socket has since closed
C14_Witness ==
    /\ mounted
    /\ ~sessionActive
    /\ Len(alerts) = 1
    /\ alerts[1].message = "Connected to caption stream."
    /\ reconnectAttemptRef = 0
    /\ DOMAIN sockets = {}
    /\ connectionState = "disconnected"

\* the step hands a caption.partial event to the aggregator
HandlesPartial ==
    \/ \E id \in 1..MaxSockets, k \in 1..Len(WireFrames) :
            WsMessage(id, k) /\ FrameYields(k, "caption.partial")
    \/ \E id \in 1..MaxHandles :
            DemoTick(id) /\ metrics'.hands_detected /\ ~partialPhaseRef

\* the step hands a caption.final event to the aggregator
HandlesFinal ==
    \/ \E id \in 1..MaxSockets, k \in 1..Len(WireFrames) :
            WsMessage(id, k) /\ FrameYields(k, "caption.final")
    \/ \E id \in 1..MaxHandles :
            DemoTick(id) /\ metrics'.hands_detected /\ partialPhaseRef

\* the step is a simulator tick that drew "no hands"
NoHandsTick == \E id \in 1..MaxHandles : DemoTick(id) /\ ~metrics'.hands_detected

\* the step stops the session
SessionStop == sessionActive /\ ~sessionActive'

(* C15 as stated: isProcessing is true exactly when the most recent of     *)
(* {caption.partial handled, caption.final handled, session stop} is a     *)
(* caption.partial: false at first, set by a partial, reset by a final or  *)
(* a stop, and kept by every other step.                                   *)
C15_ProcessingIffPartialLast ==
    /\ ~isProcessing
    /\ [][ isProcessing' = IF HandlesPartial THEN TRUE
                           ELSE IF HandlesFinal \/ SessionStop THEN FALSE
                           ELSE isProcessing ]_vars

(* C15 amended: isProcessing is true exactly when the most recent of       *)
(* {caption.partial handled, caption.final handled, session stop,         *)
(* clearTranscript, simulator tick with no hands detected} is a            *)
(* caption.partial.                                                        *)
C15_ProcessingIffPartialLastOrCleared ==
    /\ ~isProcessing
    /\ [][ isProcessing' = IF HandlesPartial THEN TRUE
                           ELSE IF \/ HandlesFinal
                                   \/ SessionStop
                                   \/ clearTranscript
                                   \/ NoHandsTick
                                THEN FALSE
                           ELSE isProcessing ]_vars

\* a partial caption arrived on a connected session and was then cleared:
\* its id is used up, nothing shows it, and isProcessing is false
C15_Witness ==
    /\ sessionActive
    /\ connectionState = "connected"
    /\ Len(alerts) = 1
    /\ alerts[1].id = 1
    /\ nextId = 3
    /\ transcript = << >>
    /\ partialCaption = NULL
    /\ ~isProcessing

(* C16: in the demo-capable variant, an active session with demoMode on or *)
(* with no endpoint runs the simulator only: connectionState is connected, *)
(* the interval is running, no socket is connecting or open, wsRef is      *)
(* empty and no reconnect timer is pending.                                *)
C16_DemoOnly ==
    variant = "demo" /\ sessionActive /\ (demoMode \/ ~wsUrl) =>
        /\ connectionState = "connected"
        /\ demoIntervalRef \in intervals
        /\ LiveSockets = {}
        /\ wsRef = 0
        /\ reconnectTimeoutRef = 0
        /\ DOMAIN timers = {}

\* the simulator of a session without endpoint has produced a partial caption
C16_Witness ==
    /\ variant = "demo"
    /\ ~wsUrl
    /\ sessionActive
    /\ isProcessing
    /\ partialCaption # NULL
    /\ metrics.hands_detected

(* C17: in the variant without simulator and with no endpoint, every       *)
(* activation (the first effect run, or startSession after a pause) puts   *)
(* exactly one warning alert in front of alerts; connectionState stays     *)
(* disconnected, partialCaption null and isProcessing false; there is      *)
(* never a socket, a timer or an interval, and no event reaches the        *)
(* aggregator: no caption, no metrics, no other alert.                     *)
C17_NoEndpointPlain ==
    /\ [](variant = "plain" /\ ~wsUrl =>
            /\ connectionState = "disconnected"
            /\ partialCaption = NULL
            /\ ~isProcessing
            /\ DOMAIN sockets = {} /\ wsRef = 0
            /\ DOMAIN timers = {} /\ reconnectTimeoutRef = 0
            /\ intervals = {}
            /\ currentCaption = NULL
            /\ transcript = << >>
            /\ metrics = DefaultMetrics
            /\ \A i \in 1..Len(alerts) :
                    /\ alerts[i].level = "warning"
                    /\ alerts[i].message = "WebSocket URL not configured.")
    /\ [][ variant = "plain" /\ ~wsUrl =>
            IF Mount \/ (startSession /\ ~sessionActive)
            THEN OneNewAlert("warning")
            ELSE UNCHANGED << alerts, nextId >> ]_vars

\* two activations, two alerts
C17_Witness ==
    /\ variant = "plain"
    /\ ~wsUrl
    /\ sessionActive
    /\ Len(alerts) = 2
    /\ connectionState = "disconnected"

\* the metrics payloads one simulator tick can produce under TickDraws
TickMetrics ==
    { [ fps |-> 11, latency_ms |-> 1548, hands_detected |-> FALSE, queue_depth |-> 0 ],
      [ fps |-> 13, latency_ms |-> 2284, hands_detected |-> TRUE, queue_depth |-> 2 ] }

(* C20: metrics is the default {0, 0, false, 0} until a system.metrics     *)
(* event is handled; each such event, from the socket or the simulator,    *)
(* replaces all four fields by the event's payload, and no other step      *)
(* changes metrics.                                                        *)
C20_MetricsLastEvent ==
    /\ metrics = DefaultMetrics
    /\ [][ /\ \A id \in 1..MaxSockets, k \in 1..Len(WireFrames) :
                WsMessage(id, k) /\ FrameYields(k, "system.metrics") =>
                    metrics' =
                        IF WireFrames[k].data = "{type:system.metrics,payload:{}}"
                        THEN [ fps |-> 0, latency_ms |-> 0,
                               hands_detected |-> FALSE, queue_depth |-> 0 ]
                        ELSE [ fps |-> 15, latency_ms |-> 13,
                               hands_detected |-> (variant = "demo"),
                               queue_depth |-> 2 ]
           /\ \A id \in 1..MaxHandles : DemoTick(id) => metrics' \in TickMetrics
           /\ (/\ \A id \in 1..MaxSockets, k \in 1..Len(WireFrames) :
                    ~(WsMessage(id, k) /\ FrameYields(k, "system.metrics"))
               /\ \A id \in 1..MaxHandles : ~DemoTick(id))
              => metrics' = metrics ]_vars

\* a caption arrived after the metrics event and left metrics as the event set it
C20_Witness ==
    /\ metrics = [ fps |-> 15, latency_ms |-> 13, hands_detected |-> FALSE,
                   queue_depth |-> 2 ]
    /\ variant = "plain"
    /\ partialCaption # NULL
    /\ connectionState = "connected"

\* every CaptionEntry the state holds
StoredCaptions ==
    (IF currentCaption = NULL THEN {} ELSE {currentCaption})
        \cup (IF partialCaption = NULL THEN {} ELSE {partialCaption})
        \cup {transcript[i] : i \in 1..Len(transcript)}

\* the level the spec assigns to a confidence in [0, 1]
SpecLevel(c) ==
    CASE c < 450 -> "low"
      [] c >= 450 /\ c < 750 -> "medium"
      [] c >= 750 -> "high"

\* the decoded value of the scripted frame and its payload
InboxValue == inbox.parsed.value
InboxPayload == Get(InboxValue, "payload")

\* the event name of the scripted frame, in whichever envelope shape
InboxEvent ==
    IF Get(InboxValue, "type").ty = "string" THEN Get(InboxValue, "type").s
    ELSE Get(InboxValue, "event").s

(* C18: every CaptionEntry in currentCaption, partialCaption or transcript *)
(* has confidence within [0, 1] and the level low below 0.45, medium from  *)
(* 0.45 to below 0.75 and high from 0.75; a caption frame whose confidence *)
(* is the number c is stored with confidence max(0, min(1, c)).            *)
C18_ConfidenceClamped ==
    /\ [](\A e \in StoredCaptions :
            /\ e.confidence >= 0
            /\ e.confidence <= 1000
            /\ e.confidenceLevel = SpecLevel(e.confidence))
    /\ [][ \A id \in 1..MaxSockets :
            /\ Deliver(id)
            /\ InboxEvent \in {"caption.partial", "caption.final"}
            /\ Get(InboxPayload, "confidence").ty = "number"
            /\ Get(InboxPayload, "confidence").finite
            => LET c == Get(InboxPayload, "confidence").n
                   stored == IF InboxEvent = "caption.partial"
                             THEN partialCaption' ELSE currentCaption'
               IN  /\ stored.id = nextId
                   /\ stored.confidence = IF c < 0 THEN 0
                                          ELSE IF c > 1000 THEN 1000 ELSE c ]_vars

\* a wire confidence of 1.4 is stored as 1.0 with level high
C18_Witness ==
    /\ inbox # NULL
    /\ Get(InboxPayload, "confidence") = JNum(1400)
    /\ partialCaption # NULL
    /\ partialCaption.confidence = 1000
    /\ partialCaption.confidenceLevel = "high"

\* the string in a field, or the placeholder when the field is no string
StringOr(value, placeholder) == IF value.ty = "string" THEN value.s ELSE placeholder

(* C19: a system.alert frame of shape {event, timestamp, payload} becomes  *)
(* an alert whose message is "<component>: <reason>", with "system" and    *)
(* "unknown alert" standing in for a component or reason that is no        *)
(* string, and whose timestamp is the payload's when that is a string and  *)
(* the envelope's otherwise; severity ERROR, component gemini, reason      *)
(* timeout under envelope timestamp T0 gives error, "gemini: timeout", T0. *)
C19_AlertNormalization ==
    [][ \A id \in 1..MaxSockets :
            Deliver(id) /\ InboxEvent = "system.alert" =>
                /\ alerts'[1].id = nextId
                /\ alerts'[1].message =
                        StringOr(Get(InboxPayload, "component"), "system") \o ": "
                            \o StringOr(Get(InboxPayload, "reason"), "unknown alert")
                /\ alerts'[1].timestamp =
                        StringOr(Get(InboxPayload, "timestamp"),
                                 Get(InboxValue, "timestamp").s)
                /\ InboxValue = AlertEnvelope(JStr("ERROR"), JStr("gemini"),
                                              JStr("timeout"), JUndef)
                   => alerts'[1] = [ level |-> "error", message |-> "gemini: timeout",
                                     timestamp |-> "T0", id |-> nextId ] ]_vars

\* the alert of the spec's example is at the head of the list
C19_Witness ==
    /\ Len(alerts) = 2
    /\ alerts[1] = [ level |-> "error", message |-> "gemini: timeout",
                     timestamp |-> "T0", id |-> 1 ]
    /\ alerts[2].message = "Connected to caption stream."

----------------------------------------------------------------------------------------------------------------------------------------
(* C21 as stated: when the page opens with an endpoint configured, the     *)
(* first effect run attempts a WebSocket connection by itself: the mount   *)
(* step leaves one connecting socket in wsRef, before any startSession.    *)
C21_AutoConnectOnOpen ==
    [][ Mount /\ wsUrl
            => /\ CurrentSocket' # NULL
               /\ CurrentSocket'.readyState = "CONNECTING"
               /\ Cardinality(LiveSockets') = 1 ]_vars

\* the step is a transport event of the live connection or its retry timer
TransportStep ==
    \/ \E id \in 1..MaxSockets : WsError(id) \/ WsClose(id) \/ WsOpen(id)
    \/ \E id \in 1..MaxHandles : ReconnectTimer(id)

(* C22: a transport disconnect never blanks the display: no error, close,  *)
(* reconnect-timer or re-open step changes currentCaption or transcript,   *)
(* so the last final caption stays while connectionState is reconnecting.  *)
C22_DisconnectKeepsCaption ==
    [][ TransportStep => UNCHANGED <<currentCaption, transcript>> ]_vars

\* a final caption is on display while the client waits to reconnect
C22_Witness ==
    /\ connectionState = "reconnecting"
    /\ DOMAIN timers # {}
    /\ currentCaption # NULL
    /\ currentCaption.text = "Hello"
    /\ transcript = <<currentCaption>>

----------------------------------------------------------------------------------------------------------------------------------------
\* the teardown of an inactive session, run on the state st
Teardown(st) == effectBody(variant, wsUrl, [st EXCEPT !.sessionActive = FALSE])

\* no socket, retry timer or simulator interval is registered in the refs
NothingRunning == wsRef = 0 /\ reconnectTimeoutRef = 0 /\ demoIntervalRef = 0

\* the step re-runs the effect of a session that is already stopped
RepeatedTeardown == mounted /\ ~sessionActive /\ \E value \in BOOLEAN : setDemoMode(value)

(* C23: the teardown (cancel the retry timer, close the socket, state      *)
(* disconnected) is idempotent: from every reachable state a second        *)
(* teardown leaves every component as the first one did, closing the       *)
(* socket twice equals closing it once, and an effect re-run of a stopped  *)
(* session changes nothing but the flag that caused it.                    *)
C23_TeardownIdempotent ==
    /\ [](/\ Teardown(Teardown(S)) = Teardown(S)
          /\ disconnectSocket(disconnectSocket(S)) = disconnectSocket(S)
          /\ NothingRunning => disconnectSocket(S) = S)
    /\ [][ RepeatedTeardown
            => UNCHANGED <<variant, wsUrl, mounted, sessionActive, connectionState,
                           currentCaption, partialCaption, transcript, alerts,
                           isProcessing, metrics, wsRef, reconnectTimeoutRef,
                           demoIntervalRef, reconnectAttemptRef, partialPhaseRef,
                           phraseIndexRef, sockets, timers, intervals, cleanup,
                           nextId, inbox>> ]_vars

\* a stopped live session whose socket is closing, its effect run again
C23_Witness ==
    /\ variant = "demo" /\ wsUrl /\ mounted
    /\ ~sessionActive /\ demoMode
    /\ NothingRunning
    /\ \E id \in DOMAIN sockets : sockets[id].readyState = "CLOSING"
    /\ timers = << >> /\ intervals = {}
    /\ connectionState = "disconnected"

----------------------------------------------------------------------------------------------------------------------------------------
\* the event a frame is normalized to
FrameEvent(k) == normalizeIncomingEvent(variant, WireFrames[k].parsed.value)

\* the step hands one or more canonical events to the aggregator
EventStep ==
    \/ \E id \in 1..MaxSockets, k \in 1..Len(WireFrames) : WsMessage(id, k)
    \/ \E id \in 1..MaxHandles : DemoTick(id)

(* C24: handling a caption.partial event replaces partialCaption by the    *)
(* entry built from the event and sets isProcessing, and leaves            *)
(* currentCaption, transcript, alerts, metrics and connectionState as they *)
(* were (a simulator tick hands over its metrics event first); no event    *)
(* removes or alters a stored transcript or alert entry other than by      *)
(* dropping the tail at the bound; a metrics or alert frame leaves         *)
(* currentCaption, partialCaption, transcript and isProcessing unchanged.  *)
C24_PartialFrame ==
    [][ /\ \A id \in 1..MaxSockets, k \in 1..Len(WireFrames) :
              WsMessage(id, k) /\ FrameYields(k, "caption.partial") =>
                  /\ partialCaption' = captionFromPayload(FrameEvent(k).payload, nextId)
                  /\ isProcessing'
                  /\ UNCHANGED <<currentCaption, transcript, alerts, metrics,
                                 connectionState>>
        /\ \A id \in 1..MaxHandles :
              DemoTick(id) /\ metrics'.hands_detected /\ ~partialPhaseRef =>
                  /\ partialCaption' # NULL
                  /\ partialCaption'.id = nextId
                  /\ isProcessing'
                  /\ UNCHANGED <<currentCaption, transcript, alerts, connectionState>>
        /\ EventStep =>
              /\ \/ transcript' = transcript
                 \/ Prepended(transcript, transcript', MAX_TRANSCRIPT_ENTRIES)
              /\ \/ alerts' = alerts
                 \/ Prepended(alerts, alerts', MAX_ALERT_ENTRIES)
        /\ \A id \in 1..MaxSockets, k \in 1..Len(WireFrames) :
              /\ WsMessage(id, k)
              /\ FrameYields(k, "system.metrics") \/ FrameYields(k, "system.alert")
              => UNCHANGED <<currentCaption, partialCaption, transcript, isProcessing>>
      ]_vars

\* a partial caption is still showing after an alert frame that followed it
C24_Witness ==
    /\ partialCaption # NULL
    /\ partialCaption.id = 1
    /\ partialCaption.text = "Hel"
    /\ isProcessing
    /\ Len(alerts) = MAX_ALERT_ENTRIES
    /\ alerts[1].id = 2
    /\ alerts[1].message = "gemini: timeout"
    /\ Len(transcript) = HistoryCaptions
    /\ currentCaption = transcript[1]

----------------------------------------------------------------------------------------------------------------------------------------
(* A live session that is never paused, against an endpoint that refuses   *)
(* or drops connections for a while and accepts them from some point on.   *)
(* The point is where the retry counter reaches MaxAttempt or the ids for  *)
(* the alerts of a later open run out: up to there the endpoint may fail   *)
(* every attempt.  Timers fire and the browser resolves every connection   *)
(* attempt and follows every error by a close event: weak fairness.        *)

\* the session is active and reads from the endpoint
ActiveLive == mounted /\ sessionActive /\ wsUrl /\ ~demoMode

\* a transport error, while the endpoint still fails
WsErrorLive(id) ==
    /\ reconnectAttemptRef < MaxAttempt
    /\ nextId < MaxIds
    /\ WsError(id)

\* a close event: after an error, or while the endpoint still fails
WsCloseLive(id) ==
    /\ id \in DOMAIN sockets
    /\ sockets[id].errored \/ (reconnectAttemptRef < MaxAttempt /\ nextId <= MaxIds)
    /\ WsClose(id)

\* the browser settles a connection attempt or completes a failure
Resolve(id) ==
    /\ id \in DOMAIN sockets
    /\ sockets[id].readyState = "CONNECTING" \/ sockets[id].errored
    /\ WsOpen(id) \/ WsErrorLive(id) \/ WsCloseLive(id)

InitLive == Init /\ wsUrl

NextLive ==
    \/ Mount
    \/ startSession
    \/ \E id \in 1..MaxSockets : WsOpen(id)
    \/ \E id \in 1..MaxSockets : WsErrorLive(id)
    \/ \E id \in 1..MaxSockets : WsCloseLive(id)
    \/ \E id \in 1..MaxHandles : ReconnectTimer(id)

SpecLive ==
    /\ InitLive
    /\ [][NextLive]_vars
    /\ WF_vars(\E id \in 1..MaxHandles : ReconnectTimer(id))
    /\ WF_vars(\E id \in 1..MaxSockets : Resolve(id))

(* C25: while the session stays active in live mode, every close of the    *)
(* current socket is eventually followed by a new connection attempt, and  *)
(* once the endpoint accepts connections connectionState eventually        *)
(* becomes connected: the client never gives up.                           *)
C25_ReconnectsForever ==
    /\ (ActiveLive /\ CurrentSocket # NULL /\ CurrentSocket.closeFired)
            ~> (LiveSockets # {})
    /\ ActiveLive ~> (connectionState = "connected")

\* connected after an attempt that failed with a transport error
C25_Witness ==
    /\ ActiveLive
    /\ connectionState = "connected"
    /\ reconnectAttemptRef = 0
    /\ Len(alerts) = 2
    /\ alerts[1].message = "Connected to caption stream."
    /\ alerts[2].message = "WebSocket transport error."

----------------------------------------------------------------------------------------------------------------------------------------
(* A demo session that has been running for a while: the cursor has moved  *)
(* through some phrases, with or without a partial caption emitted for the *)
(* current one, and the transcript was cleared since.  From there the      *)
(* simulator ticks and the user pauses, restarts, toggles and clears.      *)

InitDemo ==
    /\ variant = "demo"
    /\ wsUrl = FALSE
    /\ mounted = TRUE
    /\ sessionActive = TRUE
    /\ demoMode = TRUE
    /\ connectionState = "connected"
    /\ currentCaption = NULL
    /\ partialCaption = NULL
    /\ transcript = << >>
    /\ alerts = << >>
    /\ isProcessing = FALSE
    /\ phraseIndexRef \in 0..(MaxPhraseIndex - 1)
    /\ partialPhaseRef \in BOOLEAN
    /\ metrics = IF phraseIndexRef = 0 /\ ~partialPhaseRef THEN DefaultMetrics
                 ELSE CHOOSE m \in TickMetrics : m.hands_detected
    /\ wsRef = 0
    /\ reconnectTimeoutRef = 0
    /\ reconnectAttemptRef = 0
    /\ demoIntervalRef = 1
    /\ sockets = << >>
    /\ timers = << >>
    /\ intervals = {1}
    /\ cleanup = "demo"
    /\ nextId = 1
    /\ inbox = NULL

NextDemo ==
    \/ \E id \in 1..MaxHandles : DemoTick(id)
    \/ pauseSession
    \/ startSession
    \/ \E value \in BOOLEAN : setDemoMode(value)
    \/ clearTranscript

SpecDemo == InitDemo /\ [][NextDemo]_vars

\* the text of the partial caption for the phrase under the cursor
CurrentPartialText ==
    SubSeq(CurrentPhrase, 1, (Len(CurrentPhrase) * 6) \div 10) \o "..."

\* the step is a simulator tick
AnyTick == \E id \in 1..MaxHandles : DemoTick(id)

(* C26: on the ticks with hands detected a simulator run alternates        *)
(* between a partial for the phrase under the cursor (cursor kept) and, on *)
(* the next such tick, a final with the full text of that same phrase,     *)
(* after which the cursor advances by one; a tick without hands keeps      *)
(* phase and cursor; no other step, pauseSession and startSession          *)
(* included, moves the cursor, so successive finals carry successive       *)
(* phrases of the list taken cyclically.                                   *)
C26_PhraseCycle ==
    [][ /\ AnyTick /\ metrics'.hands_detected /\ ~partialPhaseRef =>
              /\ partialCaption' # NULL
              /\ partialCaption'.text = CurrentPartialText
              /\ partialPhaseRef'
              /\ UNCHANGED <<phraseIndexRef, transcript, currentCaption>>
        /\ AnyTick /\ metrics'.hands_detected /\ partialPhaseRef =>
              /\ currentCaption' # NULL
              /\ currentCaption'.text = CurrentPhrase
              /\ currentCaption'.text = DEMO_PHRASES[(phraseIndexRef % 5) + 1]
              /\ transcript' # << >> /\ transcript'[1] = currentCaption'
              /\ ~partialPhaseRef'
              /\ phraseIndexRef' = phraseIndexRef + 1
        /\ NoHandsTick => UNCHANGED <<partialPhaseRef, phraseIndexRef>>
        /\ ~AnyTick =>
              /\ phraseIndexRef' = phraseIndexRef
              /\ partialPhaseRef' \in {partialPhaseRef, FALSE}
        /\ clearTranscript => UNCHANGED partialPhaseRef
      ]_vars

\* the cursor wrapped around: the final after the last phrase is the first phrase
C26_Witness ==
    /\ phraseIndexRef = Len(DEMO_PHRASES) + 1
    /\ ~partialPhaseRef
    /\ currentCaption # NULL
    /\ currentCaption.text = DEMO_PHRASES[1]
    /\ transcript # << >>
    /\ transcript[1] = currentCaption

(* C27: every simulator tick hands over one system.metrics event, so       *)
(* metrics becomes the payload of that tick; a tick without hands then     *)
(* ends with partialCaption = null and isProcessing = false, puts exactly  *)
(* one warning alert "No hands detected." in front of alerts, and handles  *)
(* no caption event: the cursor, the phase, currentCaption and transcript  *)
(* are unchanged.                                                          *)
C27_NoHandsTick ==
    [][ /\ AnyTick =>
              /\ metrics' \in TickMetrics
              /\ nextId' = nextId + 1
        /\ NoHandsTick =>
              /\ partialCaption' = NULL
              /\ ~isProcessing'
              /\ OneNewAlert("warning")
              /\ alerts'[1].message = "No hands detected."
              /\ UNCHANGED <<phraseIndexRef, partialPhaseRef, currentCaption,
                             transcript, connectionState>>
      ]_vars

\* a tick without hands took the partial caption of the current phrase away
C27_Witness ==
    /\ intervals # {}
    /\ ~metrics.hands_detected
    /\ alerts # << >>
    /\ alerts[1].message = "No hands detected."
    /\ alerts[1].id = 2
    /\ partialPhaseRef
    /\ partialCaption = NULL
    /\ ~isProcessing
    /\ nextId = 3

----------------------------------------------------------------------------------------------------------------------------------------
\* the aggregate state an observer sees
Aggregate(st) ==
    << st.currentCaption, st.partialCaption, st.transcript, st.alerts,
       st.isProcessing, st.metrics >>

\* the longest event sequence tried as the explanation of one tick
MaxEvents == 3

\* the events are handled in order
RECURSIVE HandleAll(_, _)
HandleAll(st, events) ==
    IF events = << >> THEN st
    ELSE HandleAll(handleEvent(st, Head(events)), Tail(events))

\* the payload of the event an entry was built from
CaptionPayloadOf(entry) ==
    [ text |-> entry.text, timestamp |-> entry.timestamp, confidence |-> entry.confidence ]

AlertPayloadOf(entry) ==
    [ level |-> entry.level, message |-> entry.message, timestamp |-> entry.timestamp ]

\* the canonical events whose payload shows in the state after the step
EventsShowing ==
    { [ type |-> "system.metrics", payload |-> metrics' ] }
    \cup (IF partialCaption' = NULL THEN {}
          ELSE { [ type |-> "caption.partial", payload |-> CaptionPayloadOf(partialCaption') ] })
    \cup (IF currentCaption' = NULL THEN {}
          ELSE { [ type |-> "caption.final", payload |-> CaptionPayloadOf(currentCaption') ] })
    \cup (IF alerts' = << >> THEN {}
          ELSE { [ type |-> "system.alert", payload |-> AlertPayloadOf(alerts'[1]) ] })

\* the step equals the handling of some sequence of those events
ExplainedByEvents ==
    \E n \in 0..MaxEvents : \E events \in [1..n -> EventsShowing] :
        Aggregate(HandleAll(S, events)) =
            << currentCaption', partialCaption', transcript', alerts',
               isProcessing', metrics' >>

(* C28 as stated: the effect of every simulator tick on the aggregate      *)
(* state equals the effect of handling some sequence of canonical events   *)
(* through handleEvent.                                                    *)
C28_TickIsEvents ==
    [][ AnyTick => ExplainedByEvents ]_vars

(* C28, amended: a tick with hands detected equals handling its            *)
(* system.metrics event and then its caption.partial or caption.final      *)
(* event; a tick without hands equals handling its system.metrics event    *)
(* and its system.alert event with partialCaption = null and isProcessing  *)
(* = false set directly in between, which equals the events alone exactly  *)
(* when no partial caption was showing.                                    *)
C28_TickIsEventsOrReset ==
    [][ AnyTick =>
          LET observed == << currentCaption', partialCaption', transcript', alerts',
                             isProcessing', metrics' >>
              m == [ type |-> "system.metrics", payload |-> metrics' ]
          IN  IF metrics'.hands_detected
              THEN \E e \in EventsShowing :
                      /\ e.type = IF partialPhaseRef THEN "caption.final"
                                  ELSE "caption.partial"
                      /\ observed = Aggregate(HandleAll(S, << m, e >>))
              ELSE LET w == [ type |-> "system.alert",
                              payload |-> AlertPayloadOf(alerts'[1]) ]
                       reset == [ handleEvent(S, m) EXCEPT !.partialCaption = NULL,
                                                           !.isProcessing = FALSE ]
                   IN  /\ observed = Aggregate(handleEvent(reset, w))
                       /\ ExplainedByEvents <=> (partialCaption = NULL /\ ~isProcessing)
      ]_vars

\* a tick without hands cleared a partial caption that no final had committed
C28_Witness ==
    /\ metrics \in TickMetrics /\ ~metrics.hands_detected
    /\ partialPhaseRef
    /\ partialCaption = NULL
    /\ ~isProcessing
    /\ Len(alerts) = 1
    /\ alerts[1].level = "warning"
    /\ currentCaption = NULL
    /\ transcript = << >>
    /\ alerts[1].id = 2

----------------------------------------------------------------------------------------------------------------------------------------
\* the event names of the canonical events
Vocabulary == {"caption.partial", "caption.final", "system.metrics", "system.alert"}

\* raw has the shape {type: string, payload: object}
ShapeA(raw) ==
    isObject(raw) /\ Get(raw, "type").ty = "string" /\ isObject(Get(raw, "payload"))

\* raw has the shape {event: string, payload: object}
ShapeB(raw) ==
    isObject(raw) /\ Get(raw, "event").ty = "string" /\ isObject(Get(raw, "payload"))

\* the name that decides: `type` when shape A matches, `event` otherwise
NameUsed(raw) == IF ShapeA(raw) THEN Get(raw, "type").s ELSE Get(raw, "event").s

\* what the normalizer makes of the scripted frame
Normalized == normalizeIncomingEvent(variant, InboxValue)

\* a delivery hands the normalized event to the aggregator
DeliveryHandled ==
    \A id \in 1..MaxSockets :
        Deliver(id) /\ Normalized # NULL =>
            CASE Normalized.type = "caption.partial" ->
                    partialCaption' # NULL /\ partialCaption'.id = nextId
              [] Normalized.type = "caption.final" ->
                    currentCaption' # NULL /\ currentCaption'.id = nextId
              [] Normalized.type = "system.metrics" -> metrics' = Normalized.payload
              [] Normalized.type = "system.alert" -> alerts'[1].id = nextId

(* C29 as stated: normalize returns none exactly when raw is no object,    *)
(* matches neither shape, or carries a name outside the vocabulary, and    *)
(* whenever either shape matches with a name of the vocabulary the result  *)
(* is an event of that kind.                                               *)
C29_NoneExactly ==
    /\ [](inbox # NULL =>
            /\ Normalized = NULL <=>
                  \/ ~isObject(InboxValue)
                  \/ ~ShapeA(InboxValue) /\ ~ShapeB(InboxValue)
                  \/ NameUsed(InboxValue) \notin Vocabulary
            /\ ShapeA(InboxValue) /\ Get(InboxValue, "type").s \in Vocabulary
                  => Normalized # NULL /\ Normalized.type = Get(InboxValue, "type").s
            /\ ShapeB(InboxValue) /\ Get(InboxValue, "event").s \in Vocabulary
                  => Normalized # NULL /\ Normalized.type = Get(InboxValue, "event").s)
    /\ [][DeliveryHandled]_vars

(* C29, amended: shape A is tried first.  normalize returns none exactly   *)
(* when raw is no object, matches neither shape, or the name that decides  *)
(* (`type` when shape A matches, `event` otherwise) is outside the         *)
(* vocabulary; in every other case the result is an event of the kind that *)
(* name gives, and a delivery hands it to the aggregator.                  *)
C29_NoneExactlyShapeAFirst ==
    /\ [](inbox # NULL =>
            /\ Normalized = NULL <=>
                  \/ ~isObject(InboxValue)
                  \/ ~ShapeA(InboxValue) /\ ~ShapeB(InboxValue)
                  \/ NameUsed(InboxValue) \notin Vocabulary
            /\ Normalized # NULL => Normalized.type = NameUsed(InboxValue))
    /\ [][DeliveryHandled]_vars

\* a frame naming a partial under `type` and a final under `event` was stored as a partial
C29_Witness ==
    /\ inbox # NULL
    /\ Get(InboxValue, "type") = JStr("caption.partial")
    /\ Get(InboxValue, "event") = JStr("caption.final")
    /\ partialCaption # NULL
    /\ partialCaption.text = "Hi"
    /\ currentCaption = NULL

----------------------------------------------------------------------------------------------------------------------------------------
\* the severity field of the scripted alert frame
InboxSeverity == Get(InboxPayload, "severity")

(* C30 as stated: the alert of a system.alert frame has level error when   *)
(* the severity field is exactly "error", warning when it is exactly       *)
(* "warning", and info for every other severity, missing and non-string    *)
(* ones included.                                                          *)
C30_LevelExact ==
    [][ \A id \in 1..MaxSockets :
            Deliver(id) /\ InboxEvent = "system.alert" =>
                /\ alerts'[1].id = nextId
                /\ alerts'[1].level =
                        IF InboxSeverity = JStr("error") THEN "error"
                        ELSE IF InboxSeverity = JStr("warning") THEN "warning"
                        ELSE "info" ]_vars

(* C30, amended: the severity is compared without regard to letter case:   *)
(* the level is error when the severity is a string that reads "error" in  *)
(* lower case, warning when it reads "warning" in lower case, and info for *)
(* every other severity, missing and non-string ones included.             *)
C30_LevelIgnoringCase ==
    [][ \A id \in 1..MaxSockets :
            Deliver(id) /\ InboxEvent = "system.alert" =>
                /\ alerts'[1].id = nextId
                /\ alerts'[1].level =
                        IF InboxSeverity.ty # "string" THEN "info"
                        ELSE IF toLowerCase(InboxSeverity.s) = "error" THEN "error"
                        ELSE IF toLowerCase(InboxSeverity.s) = "warning" THEN "warning"
                        ELSE "info" ]_vars

\* severity "Warning" gave an alert of level warning
C30_Witness ==
    /\ inbox # NULL
    /\ InboxSeverity = JStr("Warning")
    /\ Len(alerts) = 2
    /\ alerts[1].id = 1
    /\ alerts[1].level = "warning"

----------------------------------------------------------------------------------------------------------------------------------------
\* the landmark stage of the scripted metrics frame
InboxLandmark == Get(InboxPayload, "landmark")

\* the landmark stage is healthy and has counted frames with hands
HealthyWithHands ==
    /\ Get(InboxLandmark, "healthy") = JBool(TRUE)
    /\ Get(InboxLandmark, "frames_with_hands").ty = "number"
    /\ Get(InboxLandmark, "frames_with_hands").n > 0

\* the direct flag when it is a boolean, the fallback otherwise
FlagFirst ==
    IF Get(InboxLandmark, "last_frame_had_hands").ty = "boolean"
    THEN Get(InboxLandmark, "last_frame_had_hands").b
    ELSE HealthyWithHands

\* a delivered metrics frame replaces metrics by its normalized payload
MetricsDelivered ==
    \A id \in 1..MaxSockets :
        Deliver(id) /\ InboxEvent = "system.metrics" => metrics' = Normalized.payload

(* C31 as stated: for a system.metrics event hands_detected is the         *)
(* landmark stage's direct "hands in most recent frame" flag whenever that *)
(* flag is present, and (healthy and frames-with-hands > 0) only when it   *)
(* is absent.                                                              *)
C31_HandsFlagFirst ==
    /\ [](inbox # NULL /\ InboxEvent = "system.metrics"
            => Normalized.payload.hands_detected = FlagFirst)
    /\ [][MetricsDelivered]_vars

(* C31, amended: in the hook of src/unnamed/part_000 hands_detected is the *)
(* direct flag when that flag is a boolean and (healthy and                *)
(* frames-with-hands > 0) otherwise; in the hook of                        *)
(* src/hooks/use-caption-stream.ts it is (healthy and frames-with-hands >  *)
(* 0) whatever the flag says.                                              *)
C31_HandsFlagByVariant ==
    /\ [](inbox # NULL /\ InboxEvent = "system.metrics"
            => Normalized.payload.hands_detected =
                    IF variant = "plain" THEN FlagFirst ELSE HealthyWithHands)
    /\ [][MetricsDelivered]_vars

\* the flag says no hands, and the hook without the flag reports hands
C31_Witness ==
    /\ inbox # NULL
    /\ variant = "demo"
    /\ InboxValue = MetricsEnvelope(JBool(FALSE), JBool(TRUE), JNum(3000))
    /\ metrics.hands_detected
    /\ metrics.fps = 15

----------------------------------------------------------------------------------------------------------------------------------------
(* C32: in every reachable state currentCaption and transcript agree:      *)
(* currentCaption is null exactly when transcript is empty, and otherwise  *)
(* it is the head (newest entry) of transcript.                            *)
C32_CurrentIsHead ==
    /\ currentCaption = NULL <=> transcript = << >>
    /\ transcript # << >> => currentCaption = transcript[1]

\* a simulated final caption is both on display and the only transcript entry
C32_Witness ==
    /\ variant = "demo"
    /\ intervals # {}
    /\ currentCaption # NULL
    /\ currentCaption.id = 2
    /\ currentCaption.text = DEMO_PHRASES[1]
    /\ transcript = << currentCaption >>
    /\ phraseIndexRef = 1

(* C33: in every reachable state isProcessing is true exactly when         *)
(* partialCaption is not null, and every step that sets or clears one of   *)
(* them sets or clears the other in the same step.                         *)
C33_ProcessingIffPartial ==
    /\ [](isProcessing <=> partialCaption # NULL)
    /\ [][ (isProcessing' # isProcessing)
                <=> ((partialCaption' = NULL) # (partialCaption = NULL)) ]_vars

\* a live partial caption is showing and the client is processing
C33_Witness ==
    /\ isProcessing
    /\ partialCaption # NULL
    /\ partialCaption.text = "Hel"
    /\ partialCaption.id = 2
    /\ connectionState = "connected"
    /\ LiveSockets # {}

----------------------------------------------------------------------------------------------------------------------------------------
(* C34: whenever the session is stopped and its teardown has run, the      *)
(* client holds no producer: the socket reference is null, no socket is    *)
(* connecting or open, no reconnect timer is pending, no simulator         *)
(* interval is running, the simulator phase is reset and connectionState   *)
(* is disconnected; as an invariant this holds from the teardown to the    *)
(* next startSession, whatever callbacks fire in between.                  *)
C34_StoppedHoldsNothing ==
    mounted /\ ~sessionActive =>
        /\ wsRef = 0
        /\ LiveSockets = {}
        /\ reconnectTimeoutRef = 0
        /\ timers = << >>
        /\ demoIntervalRef = 0
        /\ intervals = {}
        /\ ~partialPhaseRef
        /\ connectionState = "disconnected"

\* a simulator stopped between the partial and the final of its first phrase
C34_Witness ==
    /\ mounted /\ ~sessionActive
    /\ variant = "demo"
    /\ phraseIndexRef = 0
    /\ metrics.hands_detected
    /\ nextId = 2
    /\ alerts = << >>
    /\ partialCaption = NULL

----------------------------------------------------------------------------------------------------------------------------------------
\* the step starts a stopped session that reads from the endpoint
LiveRestart ==
    /\ startSession
    /\ ~sessionActive
    /\ wsUrl
    /\ ~demoMode

(* C35: the reconnect attempt counter changes only by a transport close    *)
(* while the session is active (+1) and by a successful open (back to 0);  *)
(* pauseSession, startSession, clearTranscript and demoMode changes leave  *)
(* it unchanged, so a session restarted after failed attempts goes on with *)
(* the backoff sequence where it stopped, and its first connect shows      *)
(* connectionState = reconnecting when the counter is above 0 and          *)
(* disconnected when it is 0.                                              *)
C35_CounterSurvivesRestart ==
    [][ /\ reconnectAttemptRef' # reconnectAttemptRef =>
              \/ /\ \E id \in 1..MaxSockets : WsClose(id)
                 /\ sessionActive
                 /\ reconnectAttemptRef' = reconnectAttemptRef + 1
              \/ /\ \E id \in 1..MaxSockets : WsOpen(id)
                 /\ reconnectAttemptRef' = 0
        /\ pauseSession \/ startSession \/ clearTranscript
                \/ (\E value \in BOOLEAN : setDemoMode(value))
              => UNCHANGED reconnectAttemptRef
        /\ LiveRestart =>
              /\ CurrentSocket' # NULL
              /\ CurrentSocket'.readyState = "CONNECTING"
              /\ connectionState' = IF reconnectAttemptRef > 0 THEN "reconnecting"
                                    ELSE "disconnected"
        /\ \A id \in 1..MaxSockets :
              WsClose(id) /\ reconnectAttemptRef' # reconnectAttemptRef =>
                  /\ DOMAIN timers' # {}
                  /\ \A t \in DOMAIN timers' :
                        timers'[t].delay = ExpectedDelay(reconnectAttemptRef + 1)
      ]_vars

\* a session restarted after a failed attempt: the socket of the stopped run
\* is still closing, the new one is connecting, the counter is kept
C35_Witness ==
    /\ sessionActive
    /\ reconnectAttemptRef = 1
    /\ connectionState = "reconnecting"
    /\ timers = << >>
    /\ CurrentSocket # NULL
    /\ CurrentSocket.readyState = "CONNECTING"
    /\ ~CurrentSocket.cancelled
    /\ \E i \in DOMAIN sockets : sockets[i].readyState = "CLOSING" /\ sockets[i].cancelled

----------------------------------------------------------------------------------------------------------------------------------------
\* the session is active and its source is the endpoint, in either hook
LiveMode == mounted /\ sessionActive /\ wsUrl /\ ~demoMode

\* the step is a callback of a socket whose session instance was cleaned up
StaleCallback ==
    \E id \in 1..MaxSockets :
        /\ id \in DOMAIN sockets
        /\ sockets[id].cancelled
        /\ WsOpen(id) \/ WsError(id) \/ WsClose(id)

(* C36: in live mode connectionState is connected exactly while the        *)
(* current socket of the current session instance has had its open         *)
(* callback fire and not yet its close callback; a callback of a stale     *)
(* socket never changes connectionState.                                   *)
C36_ConnectedIffOpen ==
    /\ [](LiveMode =>
            (connectionState = "connected"
                <=> /\ CurrentSocket # NULL
                    /\ ~CurrentSocket.cancelled
                    /\ CurrentSocket.opened
                    /\ ~CurrentSocket.closeFired))
    /\ [][ StaleCallback => UNCHANGED connectionState ]_vars

\* the open socket has reported an error and not yet its close: still connected
C36_Witness ==
    /\ LiveMode
    /\ connectionState = "connected"
    /\ CurrentSocket # NULL
    /\ CurrentSocket.opened
    /\ CurrentSocket.errored
    /\ ~CurrentSocket.closeFired
    /\ Len(alerts) = 2

----------------------------------------------------------------------------------------------------------------------------------------
\* the step stores a new caption entry, partial or final
CaptionStored ==
    \/ partialCaption' # NULL /\ partialCaption' # partialCaption
    \/ currentCaption' # NULL /\ currentCaption' # currentCaption

\* the step is a simulator tick that commits a final caption
FinalTick == AnyTick /\ currentCaption' # NULL /\ currentCaption' # currentCaption

(* C37: partialPhaseRef records that the running simulator has emitted the *)
(* partial of the phrase under the cursor and no caption event since: it   *)
(* is set only by a tick that stores that partial, survives only steps of  *)
(* the same run that store no caption and keep the cursor, and a final is  *)
(* committed only when it is set, with the text of that same phrase.       *)
(* Every stop or restart of the simulator resets it, so the resumed        *)
(* simulator emits the partial of the phrase again before its final.       *)
C37_FinalAfterPartial ==
    /\ [](partialPhaseRef => sessionActive /\ intervals # {})
    /\ [][ /\ ~partialPhaseRef /\ partialPhaseRef' =>
                /\ AnyTick
                /\ partialCaption' # NULL
                /\ partialCaption'.id = nextId
                /\ partialCaption'.text = CurrentPartialText
                /\ UNCHANGED <<phraseIndexRef, currentCaption, transcript>>
           /\ partialPhaseRef /\ partialPhaseRef' =>
                /\ ~CaptionStored
                /\ UNCHANGED <<phraseIndexRef, intervals, sessionActive, demoMode>>
           /\ FinalTick =>
                /\ partialPhaseRef
                /\ currentCaption'.text = CurrentPhrase
           /\ sessionActive # sessionActive' \/ demoMode # demoMode' =>
                ~partialPhaseRef'
           /\ AnyTick /\ metrics'.hands_detected /\ ~partialPhaseRef =>
                /\ partialCaption' # NULL
                /\ partialCaption'.text = CurrentPartialText
                /\ UNCHANGED <<currentCaption, transcript>>
         ]_vars

\* the partial of the first phrase, emitted a second time after a stop
C37_Witness ==
    /\ phraseIndexRef = 0
    /\ partialPhaseRef
    /\ partialCaption # NULL
    /\ partialCaption.id = 2
    /\ partialCaption.text = SubSeq(DEMO_PHRASES[1], 1, (Len(DEMO_PHRASES[1]) * 6) \div 10) \o "..."
    /\ alerts = << >>
    /\ transcript = << >>

----------------------------------------------------------------------------------------------------------------------------------------
(* A demo session that stays active.  The interval keeps firing (weak      *)
(* fairness of the tick) and hands are detected again and again: a tick    *)
(* draws "no hands", or starts a phrase, only while the ids and the cursor *)
(* bound leave room to commit the phrase under the cursor afterwards, so   *)
(* the bounds end a run between two phrases and never inside one.          *)

\* the ids left suffice for n more entries
RoomFor(n) == nextId + n <= MaxIds + 1

\* the caption entries the phrase under the cursor still needs
EntriesToCommit == IF partialPhaseRef THEN 1 ELSE 2

DemoTickFair(id) ==
    /\ id \in intervals
    /\ \E r \in WideTickDraws :
          /\ IF r[1] > 80
             THEN RoomFor(EntriesToCommit)
                    /\ (partialPhaseRef \/ phraseIndexRef < MaxPhraseIndex)
             ELSE RoomFor(EntriesToCommit + 1)
          /\ Step(demoTick(S, r[1], r[2], r[3], r[4], r[5]))

NextDemoFair ==
    \/ \E id \in 1..MaxHandles : DemoTickFair(id)
    \/ clearTranscript

SpecDemoFair ==
    /\ InitDemo
    /\ [][NextDemoFair]_vars
    /\ WF_vars(\E id \in 1..MaxHandles : DemoTickFair(id))

\* the final caption of phrase number n (counted from 0) was just committed
Committed(n) ==
    /\ phraseIndexRef = n + 1
    /\ currentCaption # NULL
    /\ currentCaption.text = DEMO_PHRASES[(n % Len(DEMO_PHRASES)) + 1]
    /\ transcript # << >>
    /\ transcript[1] = currentCaption
    /\ ~isProcessing

(* C38: in an active demo session, with the interval firing and hands      *)
(* detected again and again, isProcessing never stays true forever, every  *)
(* partial caption is eventually followed by the final caption of its      *)
(* phrase, and the phrase under the cursor is eventually committed to the  *)
(* transcript, whichever phrase of the list that is.                       *)
C38_PartialLeadsToFinal ==
    /\ isProcessing ~> ~isProcessing
    /\ \A n \in 0..(MaxPhraseIndex - 1) :
          /\ (partialPhaseRef /\ phraseIndexRef = n) ~> Committed(n)
          /\ (~partialPhaseRef /\ phraseIndexRef = n /\ RoomFor(2)) ~> Committed(n)

\* the third phrase was committed after a tick without hands had delayed it
C38_Witness ==
    /\ Committed(2)
    /\ Len(alerts) = 1
    /\ alerts[1].message = "No hands detected."
    /\ alerts[1].id = 1
    /\ currentCaption.id = 2

----------------------------------------------------------------------------------------------------------------------------------------
\* the step is a user operation on the session or the transcript
UserStep ==
    startSession \/ pauseSession \/ clearTranscript
        \/ (\E value \in BOOLEAN : setDemoMode(value))

(* C39: no operation clears or shortens alerts: over every step (events,   *)
(* transport callbacks, simulator ticks, startSession, pauseSession,       *)
(* clearTranscript) its length does not decrease, and the step either      *)
(* leaves the list unchanged or puts exactly one new entry in front and    *)
(* drops at most one entry, the oldest, from the tail.                     *)
C39_AlertsOnlyGrow ==
    [][ /\ Len(alerts') >= Len(alerts)
        /\ Len(alerts') <= Len(alerts) + 1
        /\ \/ alerts' = alerts
           \/ /\ alerts'[1].id = nextId
              /\ \A i \in 2..Len(alerts') : alerts'[i] = alerts[i - 1]
              /\ Len(alerts) - (Len(alerts') - 1) \in {0, 1}
        /\ clearTranscript \/ pauseSession => alerts' = alerts
        /\ UserStep /\ Len(alerts) = MAX_ALERT_ENTRIES => Len(alerts') = MAX_ALERT_ENTRIES
      ]_vars

\* the full list took one more alert, lost its oldest entry, and survived a
\* clearTranscript and a pause
C39_Witness ==
    /\ Len(alerts) = MAX_ALERT_ENTRIES
    /\ alerts[1].id = 2
    /\ alerts[2].id = 1
    /\ alerts[MAX_ALERT_ENTRIES] = OldAlert(HistoryAlerts - 1)
    /\ transcript = << >>
    /\ mounted /\ ~sessionActive

====
